---- MODULE Spec2Model ----
(***************************************************************************)
(* HumidOSH: control firmware of a humidity / fan-speed chamber.           *)
(*                                                                         *)
(* The HumidOSH object (all of its member fields), the levels it drives on *)
(* its output pins and the registers of the devices it talks to are kept   *)
(* in one record, `chamber'.  Every member function of the class is an     *)
(* operator from such a record to such a record, so that the call graph of *)
(* the source (run -> updateScreen -> toggleHumidityControl ...) is the    *)
(* call graph of the operators.  Fields named obs* are call logs of the    *)
(* drivers (what a test double of the bus would record); they are cleared  *)
(* at the start of every handler.                                           *)
(*                                                                         *)
(* Quantities entered on the keypad have at most one decimal place; every  *)
(* such value (targets, limits, inputValue_) is held in tenths (Scale).    *)
(* The contents of the LCD are not modelled.                               *)
(***************************************************************************)
EXTENDS Integers, Sequences, FiniteSets, TLC

\* ------------------------------------------------------------ constants
RETRIES_MAX == 10
PERIOD_DAQ == 1000
DURATION_HIGREP == 15
PERIOD_DAQ_HUMIDITY_TRIGGER == DURATION_HIGREP + 300
PERIOD_SCREEN_CALRESET == 2000
PERIOD_ERROR_INPUT_FLASH == 700
ERROR_INPUT_FLASH_COUNT == 6
INPUT_HUMIDITY_MAXCHAR == 4
INPUT_HUMIDITY_DECIMALS == 1
INPUT_FANSPEED_MAXCHAR == 4
INPUT_FANSPEED_DECIMALS == 0
KEY_HOLD_DURATION == 3000
PUMP_MIN == 60
PUMP_MAX == 255
Scale == 10
RH_MIN == 0 * Scale
RH_MAX == 100 * Scale
FANSPEED_USER_MIN == 1200 * Scale
FANSPEED_USER_MAX == 7500 * Scale
PID_OUT_MIN == -255
PID_OUT_MAX == 255
\* millis() when init() issues the first trigger: the delays of setup() and
\* init() that precede it (100 + 2000 + 2000 ms).
InitTriggerTime == 4100

\* ------------------------------------------------------------ bounds
\* A time stamp is kept no older than the longest duration the program
\* compares its age with, plus AgeSlack ms.
AgeSlack == 10
\* Time that may pass between two calls of run(): a loop that runs freely and
\* a loop blocked by a full round of failing retries.
TickDeltas == {105, 1050}
\* humidityControlOutput_ is a double: it is held in units of 1/OutUnit.
OutUnit == 2
\* Outputs the PID may compute in the main specification.
ControlOutputs == {-(80 * OutUnit + 1), 30 * OutUnit, 255 * OutUnit}
\* What may follow, in the stack frame, the single character atoi() is handed:
\* -1 stands for a byte that is not a digit.
StackTails == {-1, 7}
\* Key presses followed in one settings session.
MaxPresses == 9
\* Hold durations the object may be constructed with, and how long a hold is
\* followed for.
HoldDurations == {500, 1000, 2500, KEY_HOLD_DURATION}
MaxHeld == 6000
\* Key presses followed while the bus may fail.
AcqPresses == 4

AllOK == [i \in 1..RETRIES_MAX |-> TRUE]
AllFail == [i \in 1..RETRIES_MAX |-> FALSE]
LastOK == [i \in 1..RETRIES_MAX |-> i = RETRIES_MAX]
\* Outcomes of the successive attempts of one bus transaction.
BusPatterns == {AllOK, AllFail, LastOK}

VARIABLES
  chamber,    \* the HumidOSH object, its pins and its devices
  now,        \* millis()
  keypad,     \* the Keypad object: state and character of key[0]
  pc,         \* position in loop(): "getKey" or "run"
  profile,    \* what the environment may do (fixed per specification)
  busHealthy, \* TRUE: every bus transaction succeeds from now on
  rOutcomes,  \* retry specification: outcomes of the wrapped operation
  rResult,    \* retry specification: what retryFunc returned
  presses,    \* settings session: key presses made so far
  serial      \* the SerialCommunication object and the serial port

vars == <<chamber, now, keypad, pc, profile, busHealthy, rOutcomes, rResult,
          presses, serial>>

\* ------------------------------------------------------------ helpers
ToUint8(x) == x % 256

\* A double handed to a uint8_t parameter: the fraction is dropped.
DoubleToUint8(x) ==
  ToUint8(IF x >= 0 THEN x \div OutUnit ELSE -((-x) \div OutUnit))

RECURSIVE Pow10(_)
Pow10(n) == IF n = 0 THEN 1 ELSE 10 * Pow10(n - 1)

\* Driver call logs, cleared when a handler starts.
clearObs(s) ==
  [s EXCEPT !.obsDaq = "none", !.obsCtl = "none",
            !.obsTriggerCalls = 0, !.obsFetchCalls = 0, !.obsFetchOk = FALSE,
            !.obsFetchGap = 0, !.obsFanReadCalls = 0,
            !.obsFanWrites = 0, !.obsFanWriteOk = FALSE,
            !.obsAcqFlags = <<>>]

\* ------------------------------------------------------------ outputs
togglePump(s, enable) ==
  IF enable THEN [s EXCEPT !.outPump = s.pumpDutyCycle_]
  ELSE [s EXCEPT !.outPump = 0]

toggleValveDry(s, enable) == [s EXCEPT !.outValveDry = enable]

\* Variant: the wet valve is opened and never closed.
toggleValveWet_opens(s, enable) ==
  IF enable THEN [s EXCEPT !.outValveWet = TRUE] ELSE s

toggleValveWet(s, enable) == [s EXCEPT !.outValveWet = enable]

\* The fan rail is active-low: outFanPWMDrain is the level of the pin.
\* Variant: the pin is driven high to switch the rail on.
toggleFan_activeHigh(s, enable) == [s EXCEPT !.outFanPWMDrain = enable]

toggleFan(s, enable) == [s EXCEPT !.outFanPWMDrain = ~enable]

setPumpDutyCycle(s, dutyCycle) ==
  [s EXCEPT !.pumpDutyCycle_ = ToUint8(dutyCycle), !.outPump = ToUint8(dutyCycle)]

\* PID object (external): only what the controller asks of it is kept.
PIDReset(s) == [s EXCEPT !.pidIntegralZero = TRUE]

PIDSeed(s) == [s EXCEPT !.pidSeeded = TRUE]

PIDCompute(s, O) ==
  [s EXCEPT !.humidityControlOutput_ = O, !.pidIntegralZero = FALSE,
            !.pidSeeded = FALSE]

\* Variant: Disable leaves the wet valve as it is.
toggleHumidityControl_wetLeft(s, enable) ==
  IF enable
  THEN PIDReset([s EXCEPT !.outLEDRH = TRUE, !.humidityControlActive_ = TRUE])
  ELSE toggleValveDry(
         setPumpDutyCycle(
           [s EXCEPT !.outLEDRH = FALSE, !.humidityControlActive_ = FALSE], 0),
         FALSE)

toggleHumidityControl(s, enable) ==
  IF enable
  THEN PIDReset([s EXCEPT !.outLEDRH = TRUE, !.humidityControlActive_ = TRUE])
  ELSE toggleValveWet(
         toggleValveDry(
           setPumpDutyCycle(
             [s EXCEPT !.outLEDRH = FALSE, !.humidityControlActive_ = FALSE], 0),
           FALSE),
         FALSE)

\* ------------------------------------------------------------ unsigned long
\* millis() and the time stamps are unsigned long, 32 bits.  Such a value is
\* held as the signed integer with the same 32 bits: u below 2^31 as u, and
\* u from 2^31 on as u - 2^32.
MaxInt32 == 2147483647
MinInt32 == -MaxInt32 - 1

\* a + d in 32 bits, for 0 <= d.
Add32(a, d) ==
  IF a > MaxInt32 - d THEN MinInt32 + ((a - (MaxInt32 - d)) - 1) ELSE a + d

\* a - b in 32 bits.
Sub32(a, b) ==
  CASE a >= 0 /\ b < 0 /\ a > MaxInt32 + b ->
         ((a - MaxInt32) - (b + MaxInt32)) - 2
    [] a < 0 /\ b > 0 /\ a < MinInt32 + b ->
         ((a + MaxInt32) + (MaxInt32 - b)) + 2
    [] OTHER -> a - b

\* x >= k as unsigned long, for a k below 2^31.
UGE(x, k) == x < 0 \/ x >= k

\* a + x in 32 bits, x an int converted to unsigned long.
AddInt32(a, x) == IF x >= 0 THEN Add32(a, x) ELSE Sub32(a, -x)

\* A product of two ints, an int of 16 bits.  A product out of range is
\* undefined: the build either keeps its low 16 bits or, the product being
\* converted to unsigned long at once, computes it in the wider type.
Wrap16(x) == LET m == x % 65536 IN IF m >= 32768 THEN m - 65536 ELSE m

IntProduct(s, a, b) == IF s.intWraps THEN Wrap16(a * b) ELSE a * b

\* millis() - start >= period.
\* Variant: the clock is compared with the time at which the period ends.
ElapsedAtLeast_deadline(t, start, period) ==
  LET deadline == Add32(start, period)
  IN IF (t < 0) = (deadline < 0) THEN t >= deadline ELSE t < 0

ElapsedAtLeast(t, start, period) == UGE(Sub32(t, start), period)

\* ------------------------------------------------------------ bus operations
\* Each takes the object, its argument and whether this one transaction
\* succeeds, and returns the object and the bool the member function returns.
triggerHumidity(s, t, ok) ==
  [s |-> [s EXCEPT !.obsTriggerCalls = @ + 1,
                   !.sensorTriggerTime = IF ok THEN t ELSE @],
   ret |-> ok]

getHumidity(s, t, ok) ==
  [s |-> [s EXCEPT !.obsFetchCalls = @ + 1, !.obsFetchOk = ok,
                   !.obsFetchGap = Sub32(t, s.sensorTriggerTime),
                   !.sensorRHRaw = IF ok THEN s.sensorSample ELSE @,
                   !.drawsRH = IF ok THEN 0 ELSE @],
   ret |-> ok]

getFanSpeed(s, t, ok) ==
  [s |-> [s EXCEPT !.obsFanReadCalls = @ + 1], ret |-> ok]

\* fan_.setFanSpeedTarget(v): one write to the fan controller.
setFanSpeedTarget(s, v, ok) ==
  [s EXCEPT !.obsFanWrites = @ + 1, !.obsFanWriteOk = ok,
            !.fanTargetReg = IF ok THEN v ELSE @]

\* Variant: the target is written whether or not the loop is active.
updateFanSpeedTarget_always(s, targetRPM, ok) ==
  [s |-> setFanSpeedTarget(s, s.fanSpeedTarget_, ok), ret |-> ok]

updateFanSpeedTarget(s, targetRPM, ok) ==
  IF s.fanSpeedControlActive_
  THEN [s |-> setFanSpeedTarget(s, s.fanSpeedTarget_, ok), ret |-> ok]
  ELSE [s |-> s, ret |-> TRUE]

\* Variant: the rail is switched before the outcome of the write is known.
toggleFanSpeedControl_railFirst(s, enable, ok) ==
  IF enable
  THEN LET w == toggleFan(setFanSpeedTarget(s, s.fanSpeedTarget_, ok), TRUE)
       IN IF ok
          THEN [s |-> [w EXCEPT !.outLEDFan = TRUE,
                                !.fanSpeedControlActive_ = TRUE],
                ret |-> TRUE]
          ELSE [s |-> w, ret |-> FALSE]
  ELSE LET w == toggleFan(setFanSpeedTarget(s, 0, ok), FALSE)
       IN IF ok
          THEN [s |-> [w EXCEPT !.outLEDFan = FALSE,
                                !.fanSpeedControlActive_ = FALSE],
                ret |-> TRUE]
          ELSE [s |-> w, ret |-> FALSE]

toggleFanSpeedControl(s, enable, ok) ==
  IF enable
  THEN LET w == setFanSpeedTarget(s, s.fanSpeedTarget_, ok)
       IN IF ok
          THEN [s |-> [toggleFan(w, TRUE) EXCEPT !.outLEDFan = TRUE,
                                                  !.fanSpeedControlActive_ = TRUE],
                ret |-> TRUE]
          ELSE [s |-> w, ret |-> FALSE]
  ELSE LET w == setFanSpeedTarget(s, 0, ok)
       IN IF ok
          THEN [s |-> [toggleFan(w, FALSE) EXCEPT !.outLEDFan = FALSE,
                                                   !.fanSpeedControlActive_ = FALSE],
                ret |-> TRUE]
          ELSE [s |-> w, ret |-> FALSE]

\* ------------------------------------------------------------ retry
\* (this->*func)(param): func is a pointer to one of the member functions.
invoke(func, s, param, ok) ==
  CASE func = "triggerHumidity" -> triggerHumidity(s, param, ok)
    [] func = "getHumidity" -> getHumidity(s, param, ok)
    [] func = "getFanSpeed" -> getFanSpeed(s, param, ok)
    [] func = "updateFanSpeedTarget" -> updateFanSpeedTarget(s, param, ok)
    [] func = "toggleFanSpeedControl" -> toggleFanSpeedControl(s, param, ok)

\* The while loop of retryFunc, from the value of `tries' on; f[i] is
\* whether the i-th call of func succeeds.
RECURSIVE retryLoop(_, _, _, _, _)
retryLoop(func, s, param, f, tries) ==
  IF tries < RETRIES_MAX
  THEN LET r == invoke(func, s, param, f[tries + 1])
       IN IF r.ret THEN r ELSE retryLoop(func, r.s, param, f, tries + 1)
  ELSE [s |-> s, ret |-> FALSE]

\* Variant: the attempt counter starts at 1.
retryFunc_from1(func, s, param, f) == retryLoop(func, s, param, f, 1)

retryFunc(func, s, param, f) == retryLoop(func, s, param, f, 0)

\* ------------------------------------------------------------ run(): acquisition
\* run(), "Relative humidity" of the fetch branch.
\* Variant: a failed fetch leaves the flag for the control loop as it is.
acquireHumidity_flagLeft(s, t, humF) ==
  LET h == IF s.humidityTriggeredOK_
           THEN retryFunc("getHumidity", s, t, humF)
           ELSE [s |-> s, ret |-> FALSE]
  IN IF h.ret
     THEN [h.s EXCEPT !.humidityOK_ = TRUE,
                      !.newHumidityReadingPrint_ = TRUE,
                      !.newHumidityReadingControl_ = TRUE]
     ELSE [h.s EXCEPT !.humidityOK_ = FALSE,
                      !.newHumidityReadingPrint_ = FALSE]

acquireHumidity(s, t, humF) ==
  LET h == IF s.humidityTriggeredOK_
           THEN retryFunc("getHumidity", s, t, humF)
           ELSE [s |-> s, ret |-> FALSE]
  IN IF h.ret
     THEN [h.s EXCEPT !.humidityOK_ = TRUE,
                      !.newHumidityReadingPrint_ = TRUE,
                      !.newHumidityReadingControl_ = TRUE]
     ELSE [h.s EXCEPT !.humidityOK_ = FALSE,
                      !.newHumidityReadingPrint_ = FALSE,
                      !.newHumidityReadingControl_ = FALSE]

\* run(), "Fan speed" of the fetch branch.
\* Variant: a failed reading stops fan speed control.
acquireFanSpeed_stops(s, t, fanF) ==
  LET g == retryFunc("getFanSpeed", s, t, fanF)
  IN IF g.ret
     THEN [g.s EXCEPT !.fanSpeedOK_ = TRUE, !.newFanSpeedReadingPrint_ = TRUE]
     ELSE [g.s EXCEPT !.fanSpeedOK_ = FALSE, !.newFanSpeedReadingPrint_ = FALSE,
                      !.fanSpeedControlActive_ = FALSE]

acquireFanSpeed(s, t, fanF) ==
  LET g == retryFunc("getFanSpeed", s, t, fanF)
  IN IF g.ret
     THEN [g.s EXCEPT !.fanSpeedOK_ = TRUE, !.newFanSpeedReadingPrint_ = TRUE]
     ELSE [g.s EXCEPT !.fanSpeedOK_ = FALSE, !.newFanSpeedReadingPrint_ = FALSE]

\* run(), the trigger branch.
\* Variant: once a trigger has failed, no later trigger counts as issued.
triggerMeasurement_sticky(s, t, trigF) ==
  LET r == retryFunc("triggerHumidity", s, t, trigF)
  IN [r.s EXCEPT !.humidityTriggeredOK_ = @ /\ r.ret,
                 !.humidityTriggered_ = TRUE,
                 !.obsDaq = "trigger"]

triggerMeasurement(s, t, trigF) ==
  LET r == retryFunc("triggerHumidity", s, t, trigF)
  IN [r.s EXCEPT !.humidityTriggeredOK_ = r.ret,
                 !.humidityTriggered_ = TRUE,
                 !.obsDaq = "trigger"]

\* run(), "Grab/trigger measurements".  t is millis().
acquire(s, t, trigF, humF, fanF) ==
  IF ElapsedAtLeast(t, s.DAQTimerStart_,
                    PERIOD_DAQ - PERIOD_DAQ_HUMIDITY_TRIGGER)
  THEN IF s.humidityTriggered_ /\ ElapsedAtLeast(t, s.DAQTimerStart_, PERIOD_DAQ)
       THEN LET a == [s EXCEPT !.DAQTimerStart_ = t, !.obsDaq = "fetch"]
                c == acquireFanSpeed(acquireHumidity(a, t, humF), t, fanF)
            IN [c EXCEPT !.humidityTriggered_ = FALSE]
       ELSE IF ~s.humidityTriggered_
            THEN triggerMeasurement(s, t, trigF)
            ELSE s
  ELSE s

\* ------------------------------------------------------------ run(): humidity control
\* The actuation rule applied to humidityControlOutput_.
\* Variant: an output equal to the lower duty limit counts as deadband.
actuate_strict(s) ==
  LET O == s.humidityControlOutput_
      dutyMin == s.pumpDutyCycleMin_ * OutUnit
      dutyMax == s.pumpDutyCycleMax_ * OutUnit
  IN IF O > dutyMin
     THEN LET v == toggleValveDry(toggleValveWet(s, TRUE), FALSE)
          IN IF O >= dutyMax
             THEN setPumpDutyCycle(v, 255)
             ELSE setPumpDutyCycle(v, DoubleToUint8(O))
     ELSE IF O < 0 /\ -O >= dutyMin
          THEN LET v == toggleValveWet(toggleValveDry(s, TRUE), FALSE)
               IN IF -O >= dutyMax
                  THEN setPumpDutyCycle(v, 255)
                  ELSE setPumpDutyCycle(v, DoubleToUint8(-O))
          ELSE toggleValveWet(toggleValveDry(setPumpDutyCycle(s, 0), FALSE), FALSE)

actuate(s) ==
  LET O == s.humidityControlOutput_
      dutyMin == s.pumpDutyCycleMin_ * OutUnit
      dutyMax == s.pumpDutyCycleMax_ * OutUnit
  IN IF O >= dutyMin
     THEN LET v == toggleValveDry(toggleValveWet(s, TRUE), FALSE)
          IN IF O >= dutyMax
             THEN setPumpDutyCycle(v, 255)
             ELSE setPumpDutyCycle(v, DoubleToUint8(O))
     ELSE IF O < 0 /\ -O >= dutyMin
          THEN LET v == toggleValveWet(toggleValveDry(s, TRUE), FALSE)
               IN IF -O >= dutyMax
                  THEN setPumpDutyCycle(v, 255)
                  ELSE setPumpDutyCycle(v, DoubleToUint8(-O))
          ELSE toggleValveWet(toggleValveDry(setPumpDutyCycle(s, 0), FALSE), FALSE)

\* Recovery after an error: restart the PID, seed it, do not actuate.
\* Variant: the pump is switched back on at its last duty cycle.
recover_pumpOn(s) ==
  [togglePump(PIDSeed(PIDReset([s EXCEPT !.humidityErrorHandlingActive_ = FALSE])),
              TRUE)
     EXCEPT !.obsCtl = "recover"]

recover(s) ==
  [PIDSeed(PIDReset([s EXCEPT !.humidityErrorHandlingActive_ = FALSE]))
     EXCEPT !.obsCtl = "recover"]

\* A reading could not be obtained: switch the actuators off.
\* Variant: the pump is left running.
failSafe_pumpLeft(s) ==
  [toggleValveWet(
     toggleValveDry([s EXCEPT !.humidityErrorHandlingActive_ = TRUE], FALSE),
     FALSE)
     EXCEPT !.obsCtl = "failsafe"]

failSafe(s) ==
  [toggleValveWet(
     toggleValveDry(
       togglePump([s EXCEPT !.humidityErrorHandlingActive_ = TRUE], FALSE),
       FALSE),
     FALSE)
     EXCEPT !.obsCtl = "failsafe"]

\* run(), "Perform controls on relative humidity".  O is what the PID computes
\* if it is asked to.
\* Variant: the controller step leaves the reading flagged as new.
humidityControl_flagKept(s, O) ==
  IF s.humidityControlActive_
  THEN IF s.humidityOK_
       THEN IF s.newHumidityReadingControl_
            THEN IF s.humidityErrorHandlingActive_
                 THEN recover(s)
                 ELSE [actuate(PIDCompute(s, O)) EXCEPT !.obsCtl = "compute"]
            ELSE s
       ELSE IF ~s.humidityErrorHandlingActive_
            THEN failSafe(s)
            ELSE s
  ELSE s

humidityControl(s, O) ==
  IF s.humidityControlActive_
  THEN IF s.humidityOK_
       THEN IF s.newHumidityReadingControl_
            THEN LET a == [s EXCEPT !.newHumidityReadingControl_ = FALSE]
                 IN IF a.humidityErrorHandlingActive_
                    THEN recover(a)
                    ELSE [actuate(PIDCompute(a, O)) EXCEPT !.obsCtl = "compute"]
            ELSE s
       ELSE IF ~s.humidityErrorHandlingActive_
            THEN failSafe(s)
            ELSE s
  ELSE s

\* ------------------------------------------------------------ screen
changeScreenPage(s, newScreenPage) ==
  [s EXCEPT !.screenPageChanged_ = TRUE, !.screenPage_ = newScreenPage]

\* Variant: the count of characters is left as it is.
resetInputVars_countKept(s) ==
  [s EXCEPT !.inputValue_ = 0, !.inputIntCount_ = 0,
            !.inputDecimalCount_ = 0, !.decimalUsed_ = FALSE]

resetInputVars(s) ==
  [s EXCEPT !.inputValue_ = 0, !.inputCharCount_ = 0, !.inputIntCount_ = 0,
            !.inputDecimalCount_ = 0, !.decimalUsed_ = FALSE]

\* updateScreen(), case SCREEN_PAGE_HOLD, page already drawn.
\* kstate is keypad_->getState(); fanWF the outcomes of the fan writes.
\* Variant: stopping humidity control leaves the page as it is.
updateHold_pageKept(s, t, kstate, fanWF) ==
  LET a == IF UGE(AddInt32(Sub32(t, s.holdTimeStart_),
                           IntProduct(s, s.keyHoldSecondsRemaining_ - 1, 1000)),
                  s.keyHoldDuration_)
           THEN LET d == [s EXCEPT !.keyHoldSecondsRemaining_ = (@ - 1) % 256]
                IN IF d.keyHoldSecondsRemaining_ < 1
                   THEN IF d.holdHumidityButton_
                        THEN toggleHumidityControl(
                               [d EXCEPT !.humidityControlRecentlyStopped_ = TRUE],
                               FALSE)
                        ELSE IF d.holdFanSpeedButton_
                             THEN changeScreenPage(
                                    retryFunc("toggleFanSpeedControl",
                                      [d EXCEPT !.fanSpeedControlRecentlyStopped_ = TRUE],
                                      FALSE, fanWF).s,
                                    "READINGS")
                             ELSE d
                   ELSE d
           ELSE s
  IN IF kstate = "RELEASED" THEN changeScreenPage(a, "READINGS") ELSE a

updateHold(s, t, kstate, fanWF) ==
  LET a == IF UGE(AddInt32(Sub32(t, s.holdTimeStart_),
                           IntProduct(s, s.keyHoldSecondsRemaining_ - 1, 1000)),
                  s.keyHoldDuration_)
           THEN LET d == [s EXCEPT !.keyHoldSecondsRemaining_ = (@ - 1) % 256]
                IN IF d.keyHoldSecondsRemaining_ < 1
                   THEN IF d.holdHumidityButton_
                        THEN changeScreenPage(
                               toggleHumidityControl(
                                 [d EXCEPT !.humidityControlRecentlyStopped_ = TRUE],
                                 FALSE),
                               "READINGS")
                        ELSE IF d.holdFanSpeedButton_
                             THEN changeScreenPage(
                                    retryFunc("toggleFanSpeedControl",
                                      [d EXCEPT !.fanSpeedControlRecentlyStopped_ = TRUE],
                                      FALSE, fanWF).s,
                                    "READINGS")
                             ELSE d
                   ELSE d
           ELSE s
  IN IF kstate = "RELEASED" THEN changeScreenPage(a, "READINGS") ELSE a

\* updateScreen(), cases SCREEN_PAGE_MINVAL and SCREEN_PAGE_MAXVAL, page drawn.
\* Variant: a flash is counted in every call.
updateLimitError_everyCall(s, t) ==
  LET a == [s EXCEPT !.errorInputTimerFlashCounter_ = @ + 1]
  IN IF a.errorInputTimerFlashCounter_ < ERROR_INPUT_FLASH_COUNT
     THEN [a EXCEPT !.errorInputFlashOn_ = ~@]
     ELSE IF a.errorInputHumidity_
          THEN changeScreenPage(resetInputVars(a), "HUMIDITYADJ")
          ELSE changeScreenPage(resetInputVars(a), "FANSPEEDADJ")

updateLimitError(s, t) ==
  IF t - s.errorInputTimerStart_
       >= (s.errorInputTimerFlashCounter_ + 1) * PERIOD_ERROR_INPUT_FLASH
  THEN LET a == [s EXCEPT !.errorInputTimerFlashCounter_ = @ + 1]
       IN IF a.errorInputTimerFlashCounter_ < ERROR_INPUT_FLASH_COUNT
          THEN [a EXCEPT !.errorInputFlashOn_ = ~@]
          ELSE IF a.errorInputHumidity_
               THEN changeScreenPage(resetInputVars(a), "HUMIDITYADJ")
               ELSE changeScreenPage(resetInputVars(a), "FANSPEEDADJ")
  ELSE s

\* printReadingRightAligned of the humidity reading held (humidity_, or
\* getRHRaw() on the calibration page).  drawsRH counts how often the reading
\* held has been written to the page shown: the redraw of a page starts the
\* count anew, and so does a new reading.
redrawHumidity(s) == [s EXCEPT !.drawsRH = 1]

drawHumidity(s) == [s EXCEPT !.drawsRH = @ + 1]

\* Variant: the reset page times out to the readings page.
updateScreen_resetHome(s, t, kstate, fanWF) ==
  CASE s.screenPage_ = "READINGS" ->
         IF s.screenPageChanged_
         THEN IF s.humidityOK_
              THEN redrawHumidity([s EXCEPT !.screenPageChanged_ = FALSE])
              ELSE [s EXCEPT !.screenPageChanged_ = FALSE]
         ELSE LET a == IF s.humidityOK_ /\ s.newHumidityReadingPrint_
                       THEN drawHumidity(
                              [s EXCEPT !.newHumidityReadingPrint_ = FALSE])
                       ELSE s
              IN IF a.fanSpeedControlActive_ /\ a.fanSpeedOK_
                    /\ a.newFanSpeedReadingPrint_
                 THEN [a EXCEPT !.newFanSpeedReadingPrint_ = FALSE]
                 ELSE a
    [] s.screenPage_ \in {"HUMIDITYADJ", "FANSPEEDADJ", "CAL"} ->
         IF s.screenPageChanged_
         THEN [s EXCEPT !.screenPageChanged_ = FALSE]
         ELSE s
    [] s.screenPage_ = "CAL_POINT" ->
         IF s.screenPageChanged_
         THEN redrawHumidity([s EXCEPT !.screenPageChanged_ = FALSE])
         ELSE IF s.humidityOK_ /\ s.newHumidityReadingPrint_
              THEN drawHumidity([s EXCEPT !.newHumidityReadingPrint_ = FALSE])
              ELSE s
    [] s.screenPage_ = "CAL_RESET" ->
         IF s.screenPageChanged_
         THEN [s EXCEPT !.screenPageChanged_ = FALSE,
                        !.calResetSplashTimerStart_ = t]
         ELSE IF t - s.calResetSplashTimerStart_ >= PERIOD_SCREEN_CALRESET
              THEN changeScreenPage(s, "READINGS")
              ELSE s
    [] s.screenPage_ = "HOLD" ->
         IF s.screenPageChanged_
         THEN [s EXCEPT !.screenPageChanged_ = FALSE]
         ELSE updateHold(s, t, kstate, fanWF)
    [] s.screenPage_ \in {"MINVAL", "MAXVAL"} ->
         IF s.screenPageChanged_
         THEN [s EXCEPT !.screenPageChanged_ = FALSE]
         ELSE updateLimitError(s, t)

updateScreen(s, t, kstate, fanWF) ==
  CASE s.screenPage_ = "READINGS" ->
         IF s.screenPageChanged_
         THEN IF s.humidityOK_
              THEN redrawHumidity([s EXCEPT !.screenPageChanged_ = FALSE])
              ELSE [s EXCEPT !.screenPageChanged_ = FALSE]
         ELSE LET a == IF s.humidityOK_ /\ s.newHumidityReadingPrint_
                       THEN drawHumidity(
                              [s EXCEPT !.newHumidityReadingPrint_ = FALSE])
                       ELSE s
              IN IF a.fanSpeedControlActive_ /\ a.fanSpeedOK_
                    /\ a.newFanSpeedReadingPrint_
                 THEN [a EXCEPT !.newFanSpeedReadingPrint_ = FALSE]
                 ELSE a
    [] s.screenPage_ \in {"HUMIDITYADJ", "FANSPEEDADJ", "CAL"} ->
         IF s.screenPageChanged_
         THEN [s EXCEPT !.screenPageChanged_ = FALSE]
         ELSE s
    [] s.screenPage_ = "CAL_POINT" ->
         IF s.screenPageChanged_
         THEN redrawHumidity([s EXCEPT !.screenPageChanged_ = FALSE])
         ELSE IF s.humidityOK_ /\ s.newHumidityReadingPrint_
              THEN drawHumidity([s EXCEPT !.newHumidityReadingPrint_ = FALSE])
              ELSE s
    [] s.screenPage_ = "CAL_RESET" ->
         IF s.screenPageChanged_
         THEN [s EXCEPT !.screenPageChanged_ = FALSE,
                        !.calResetSplashTimerStart_ = t]
         ELSE IF t - s.calResetSplashTimerStart_ >= PERIOD_SCREEN_CALRESET
              THEN changeScreenPage(s, "CAL")
              ELSE s
    [] s.screenPage_ = "HOLD" ->
         IF s.screenPageChanged_
         THEN [s EXCEPT !.screenPageChanged_ = FALSE]
         ELSE updateHold(s, t, kstate, fanWF)
    [] s.screenPage_ \in {"MINVAL", "MAXVAL"} ->
         IF s.screenPageChanged_
         THEN [s EXCEPT !.screenPageChanged_ = FALSE]
         ELSE updateLimitError(s, t)

\* ------------------------------------------------------------ run()
\* The three flags of the humidity reading as the acquisition part of run()
\* leaves them, logged before the control part and the screen consume them.
logAcq(s) ==
  IF s.obsDaq = "fetch"
  THEN [s EXCEPT !.obsAcqFlags = <<s.humidityOK_, s.newHumidityReadingPrint_,
                                   s.newHumidityReadingControl_>>]
  ELSE s

run(s, t, trigF, humF, fanF, fanWF, O, kstate) ==
  updateScreen(
    humidityControl(logAcq(acquire(clearObs(s), t, trigF, humF, fanF)), O),
    t, kstate, fanWF)

\* ------------------------------------------------------------ keypad handlers
DigitVal(key) ==
  CASE key = "0" -> 0 [] key = "1" -> 1 [] key = "2" -> 2 [] key = "3" -> 3
    [] key = "4" -> 4 [] key = "5" -> 5 [] key = "6" -> 6 [] key = "7" -> 7
    [] key = "8" -> 8 [] key = "9" -> 9

AllDigitKeys == {"0", "1", "2", "3", "4", "5", "6", "7", "8", "9"}

\* atoi(&inputKey): inputKey is a lone char, not a terminated string, so atoi
\* reads on into whatever follows it in the stack frame.  stackTail is that
\* byte: -1 when it is not a digit (atoi returns the digit of the key), else
\* the digit it holds (atoi returns the two-digit number).
atoi(s, key) ==
  IF s.stackTail = -1 THEN DigitVal(key) ELSE DigitVal(key) * 10 + s.stackTail

\* Variant: a release after a stop leaves the recently-stopped flag.
handleButtonControl_flagKept(s, humidity, kstate, t, fanWF) ==
  LET controlActiveFlag == IF humidity THEN s.humidityControlActive_
                           ELSE s.fanSpeedControlActive_
      recentlyStoppedFlag == IF humidity THEN s.humidityControlRecentlyStopped_
                             ELSE s.fanSpeedControlRecentlyStopped_
  IN IF controlActiveFlag
     THEN IF kstate = "HOLD"
          THEN changeScreenPage(
                 [s EXCEPT !.holdTimeStart_ = t,
                           !.holdHumidityButton_ = humidity,
                           !.holdFanSpeedButton_ = ~humidity,
                           !.keyHoldSecondsRemaining_ = s.keyHoldDuration_ \div 1000],
                 "HOLD")
          ELSE s
     ELSE IF kstate = "RELEASED"
          THEN IF ~recentlyStoppedFlag
               THEN IF humidity
                    THEN toggleHumidityControl(s, TRUE)
                    ELSE retryFunc("toggleFanSpeedControl", s, TRUE, fanWF).s
               ELSE s
          ELSE s

handleButtonControl(s, humidity, kstate, t, fanWF) ==
  LET controlActiveFlag == IF humidity THEN s.humidityControlActive_
                           ELSE s.fanSpeedControlActive_
      recentlyStoppedFlag == IF humidity THEN s.humidityControlRecentlyStopped_
                             ELSE s.fanSpeedControlRecentlyStopped_
  IN IF controlActiveFlag
     THEN IF kstate = "HOLD"
          THEN changeScreenPage(
                 [s EXCEPT !.holdTimeStart_ = t,
                           !.holdHumidityButton_ = humidity,
                           !.holdFanSpeedButton_ = ~humidity,
                           !.keyHoldSecondsRemaining_ = s.keyHoldDuration_ \div 1000],
                 "HOLD")
          ELSE s
     ELSE IF kstate = "RELEASED"
          THEN IF ~recentlyStoppedFlag
               THEN IF humidity
                    THEN toggleHumidityControl(s, TRUE)
                    ELSE retryFunc("toggleFanSpeedControl", s, TRUE, fanWF).s
               ELSE IF humidity
                    THEN [s EXCEPT !.humidityControlRecentlyStopped_ = FALSE]
                    ELSE [s EXCEPT !.fanSpeedControlRecentlyStopped_ = FALSE]
          ELSE s

handleInputNumber(s, inputKey, charMax, decimalsMax) ==
  LET a == atoi(s, inputKey)
  IN
  IF s.inputCharCount_ + 1 <= charMax
  THEN IF s.decimalUsed_
       THEN IF s.inputDecimalCount_ + 1 <= decimalsMax
            THEN [s EXCEPT !.inputCharCount_ = @ + 1,
                           !.inputDecimalCount_ = @ + 1,
                           !.inputValue_ =
                              @ + (a * Scale) \div Pow10(s.inputDecimalCount_ + 1)]
            ELSE s
       ELSE [s EXCEPT !.inputCharCount_ = @ + 1,
                      !.inputIntCount_ = @ + 1,
                      !.inputValue_ = @ * 10 + a * Scale]
  ELSE s

\* trunc(v * 10^n) / 10^n on a value held in tenths.
TruncDecimals(v, n) ==
  LET unit == Scale \div Pow10(n) IN (v \div unit) * unit

\* Variant: taking the decimal point away leaves the character count.
handleInputDelete_pointFree(s, charMax) ==
  IF s.inputCharCount_ > 0
  THEN IF s.decimalUsed_
       THEN IF s.inputDecimalCount_ > 0
            THEN [s EXCEPT !.inputDecimalCount_ = @ - 1,
                           !.inputCharCount_ = @ - 1,
                           !.inputValue_ = TruncDecimals(@, s.inputDecimalCount_ - 1)]
            ELSE [s EXCEPT !.decimalUsed_ = FALSE]
       ELSE [s EXCEPT !.inputIntCount_ = ToUint8(@ - 1),
                      !.inputCharCount_ = @ - 1,
                      !.inputValue_ = ((@ \div Scale) \div 10) * Scale]
  ELSE s

handleInputDelete(s, charMax) ==
  IF s.inputCharCount_ > 0
  THEN IF s.decimalUsed_
       THEN IF s.inputDecimalCount_ > 0
            THEN [s EXCEPT !.inputDecimalCount_ = @ - 1,
                           !.inputCharCount_ = @ - 1,
                           !.inputValue_ = TruncDecimals(@, s.inputDecimalCount_ - 1)]
            ELSE [s EXCEPT !.inputCharCount_ = @ - 1, !.decimalUsed_ = FALSE]
       ELSE [s EXCEPT !.inputIntCount_ = ToUint8(@ - 1),
                      !.inputCharCount_ = @ - 1,
                      !.inputValue_ = ((@ \div Scale) \div 10) * Scale]
  ELSE s

\* Variant: the point is taken with no integer digit present.
handleInputDot_noInt(s, charMax, decimalsMax) ==
  IF decimalsMax > 0 /\ s.inputCharCount_ < charMax /\ ~s.decimalUsed_
  THEN [s EXCEPT !.inputCharCount_ = @ + 1, !.decimalUsed_ = TRUE]
  ELSE s

handleInputDot(s, charMax, decimalsMax) ==
  IF decimalsMax > 0 /\ s.inputCharCount_ < charMax /\ ~s.decimalUsed_
     /\ s.inputIntCount_ > 0
  THEN [s EXCEPT !.inputCharCount_ = @ + 1, !.decimalUsed_ = TRUE]
  ELSE s

\* Variant: the refused value is stored as the humidity target all the same.
rejectInput_stored(s, humidity, page, t) ==
  [changeScreenPage([s EXCEPT !.errorInputHumidity_ = humidity,
                              !.humidityTarget_ = IF humidity THEN s.inputValue_
                                                  ELSE @], page)
     EXCEPT !.errorInputTimerStart_ = t,
            !.errorInputFlashOn_ = TRUE,
            !.errorInputTimerFlashCounter_ = 0]

rejectInput(s, humidity, page, t) ==
  [changeScreenPage([s EXCEPT !.errorInputHumidity_ = humidity], page)
     EXCEPT !.errorInputTimerStart_ = t,
            !.errorInputFlashOn_ = TRUE,
            !.errorInputTimerFlashCounter_ = 0]

\* targetBuffer is humidityTarget_ when humidity, fanSpeedTarget_ otherwise.
\* Variant: the maximum itself is refused.
saveInput_maxExcluded(s, humidity, min, max, t, fanWF) ==
  IF s.inputValue_ >= max
  THEN [s |-> rejectInput(s, humidity, "MAXVAL", t), ret |-> FALSE]
  ELSE IF s.inputValue_ < min
       THEN [s |-> rejectInput(s, humidity, "MINVAL", t), ret |-> FALSE]
       ELSE IF humidity
            THEN [s |-> [s EXCEPT !.humidityTarget_ = s.inputValue_], ret |-> TRUE]
            ELSE LET a == [s EXCEPT !.fanSpeedTarget_ = s.inputValue_]
                 IN [s |-> retryFunc("updateFanSpeedTarget", a, a.fanSpeedTarget_,
                                     fanWF).s,
                     ret |-> TRUE]

saveInput(s, humidity, min, max, t, fanWF) ==
  IF s.inputValue_ > max
  THEN [s |-> rejectInput(s, humidity, "MAXVAL", t), ret |-> FALSE]
  ELSE IF s.inputValue_ < min
       THEN [s |-> rejectInput(s, humidity, "MINVAL", t), ret |-> FALSE]
       ELSE IF humidity
            THEN [s |-> [s EXCEPT !.humidityTarget_ = s.inputValue_], ret |-> TRUE]
            ELSE LET a == [s EXCEPT !.fanSpeedTarget_ = s.inputValue_]
                 IN [s |-> retryFunc("updateFanSpeedTarget", a, a.fanSpeedTarget_,
                                     fanWF).s,
                     ret |-> TRUE]

\* The editing keys of the three pages that take a number.
handleEditKeys(s, key, charMax, decimalsMax) ==
  CASE key \in AllDigitKeys -> handleInputNumber(s, key, charMax, decimalsMax)
    [] key = "d" -> handleInputDelete(s, charMax)
    [] key = "." -> handleInputDot(s, charMax, decimalsMax)
    [] OTHER -> s

saveAndApplyCalibration(s, point1, ref, raw) ==
  IF point1 THEN [s EXCEPT !.calPoint1 = <<raw, ref>>]
  ELSE [s EXCEPT !.calPoint2 = <<raw, ref>>]

resetCalibration(s) == [s EXCEPT !.calPoint1 = <<>>, !.calPoint2 = <<>>]

\* case SCREEN_PAGE_CAL_RESET of handleKeyPress.
\* Variant: a press of any key confirms.
confirmCalReset_anyKey(s, key, kstate) ==
  IF kstate = "PRESSED"
  THEN changeScreenPage(resetCalibration(s), "CAL")
  ELSE s

confirmCalReset(s, key, kstate) ==
  IF kstate = "PRESSED" /\ key = "5"
  THEN changeScreenPage(resetCalibration(s), "CAL")
  ELSE s

\* case 's' of SCREEN_PAGE_CAL_POINT.
\* Variant: the reference is always stored as point 1.
commitCalPoint_point1(s) ==
  IF s.inputCharCount_ > 0
  THEN changeScreenPage(
         resetInputVars(
           saveAndApplyCalibration(s, TRUE, s.inputValue_, s.sensorRHRaw)),
         "CAL")
  ELSE changeScreenPage(resetInputVars(s), "CAL")

commitCalPoint(s) ==
  IF s.inputCharCount_ > 0
  THEN changeScreenPage(
         resetInputVars(
           saveAndApplyCalibration(s, s.calibratingPoint1, s.inputValue_,
                                   s.sensorRHRaw)),
         "CAL")
  ELSE changeScreenPage(resetInputVars(s), "CAL")

\* case 's' of the two adjustment pages.
\* Variant: what the editor holds is saved even when nothing was entered.
commitOrSkip_always(s, humidity, min, max, nextPage, t, fanWF) ==
  LET r == saveInput(s, humidity, min, max, t, fanWF)
  IN IF r.ret
     THEN changeScreenPage(resetInputVars(r.s), nextPage)
     ELSE r.s

commitOrSkip(s, humidity, min, max, nextPage, t, fanWF) ==
  IF s.inputCharCount_ > 0
  THEN LET r == saveInput(s, humidity, min, max, t, fanWF)
       IN IF r.ret
          THEN changeScreenPage(resetInputVars(r.s), nextPage)
          ELSE r.s
  ELSE changeScreenPage(resetInputVars(s), nextPage)

\* kstate is keypad_->getState(), t is millis(), fanWF the outcomes of the
\* fan-controller writes.
\* Variant: the humidity page serves the humidity key as well.
handleKeyPress_humidityPage(s0, key, kstate, t, fanWF) ==
  LET s == clearObs(s0)
  IN CASE s.screenPage_ = "READINGS" ->
            (CASE key = "s" ->
                    IF kstate = "PRESSED"
                    THEN changeScreenPage(resetInputVars(s), "HUMIDITYADJ")
                    ELSE s
               [] key = "h" -> handleButtonControl(s, TRUE, kstate, t, fanWF)
               [] key = "f" -> handleButtonControl(s, FALSE, kstate, t, fanWF)
               [] OTHER -> s)
       [] s.screenPage_ = "HUMIDITYADJ" ->
            IF kstate = "PRESSED"
            THEN IF key = "s"
                 THEN commitOrSkip(s, TRUE, s.humidityMin_, s.humidityMax_,
                                   "FANSPEEDADJ", t, fanWF)
                 ELSE handleEditKeys(s, key, INPUT_HUMIDITY_MAXCHAR,
                                     INPUT_HUMIDITY_DECIMALS)
            ELSE IF key = "h"
                 THEN handleButtonControl(s, TRUE, kstate, t, fanWF)
                 ELSE s
       [] s.screenPage_ = "FANSPEEDADJ" ->
            IF kstate = "PRESSED"
            THEN IF key = "s"
                 THEN commitOrSkip(s, FALSE, s.fanSpeedMin_, s.fanSpeedMax_,
                                   "CAL", t, fanWF)
                 ELSE handleEditKeys(s, key, INPUT_FANSPEED_MAXCHAR,
                                     INPUT_FANSPEED_DECIMALS)
            ELSE s
       [] s.screenPage_ = "CAL" ->
            IF kstate = "PRESSED"
            THEN CASE key = "s" -> changeScreenPage(resetInputVars(s), "READINGS")
                   [] key = "1" ->
                        changeScreenPage([s EXCEPT !.calibratingPoint1 = TRUE],
                                         "CAL_POINT")
                   [] key = "2" ->
                        changeScreenPage([s EXCEPT !.calibratingPoint1 = FALSE],
                                         "CAL_POINT")
                   [] key = "3" -> changeScreenPage(s, "CAL_RESET")
                   [] OTHER -> s
            ELSE s
       [] s.screenPage_ = "CAL_POINT" ->
            IF kstate = "PRESSED"
            THEN IF key = "s"
                 THEN commitCalPoint(s)
                 ELSE handleEditKeys(s, key, INPUT_HUMIDITY_MAXCHAR,
                                     INPUT_HUMIDITY_DECIMALS)
            ELSE s
       [] s.screenPage_ = "CAL_RESET" -> confirmCalReset(s, key, kstate)
       [] OTHER -> s

handleKeyPress(s0, key, kstate, t, fanWF) ==
  LET s == clearObs(s0)
  IN CASE s.screenPage_ = "READINGS" ->
            (CASE key = "s" ->
                    IF kstate = "PRESSED"
                    THEN changeScreenPage(resetInputVars(s), "HUMIDITYADJ")
                    ELSE s
               [] key = "h" -> handleButtonControl(s, TRUE, kstate, t, fanWF)
               [] key = "f" -> handleButtonControl(s, FALSE, kstate, t, fanWF)
               [] OTHER -> s)
       [] s.screenPage_ = "HUMIDITYADJ" ->
            IF kstate = "PRESSED"
            THEN IF key = "s"
                 THEN commitOrSkip(s, TRUE, s.humidityMin_, s.humidityMax_,
                                   "FANSPEEDADJ", t, fanWF)
                 ELSE handleEditKeys(s, key, INPUT_HUMIDITY_MAXCHAR,
                                     INPUT_HUMIDITY_DECIMALS)
            ELSE s
       [] s.screenPage_ = "FANSPEEDADJ" ->
            IF kstate = "PRESSED"
            THEN IF key = "s"
                 THEN commitOrSkip(s, FALSE, s.fanSpeedMin_, s.fanSpeedMax_,
                                   "CAL", t, fanWF)
                 ELSE handleEditKeys(s, key, INPUT_FANSPEED_MAXCHAR,
                                     INPUT_FANSPEED_DECIMALS)
            ELSE s
       [] s.screenPage_ = "CAL" ->
            IF kstate = "PRESSED"
            THEN CASE key = "s" -> changeScreenPage(resetInputVars(s), "READINGS")
                   [] key = "1" ->
                        changeScreenPage([s EXCEPT !.calibratingPoint1 = TRUE],
                                         "CAL_POINT")
                   [] key = "2" ->
                        changeScreenPage([s EXCEPT !.calibratingPoint1 = FALSE],
                                         "CAL_POINT")
                   [] key = "3" -> changeScreenPage(s, "CAL_RESET")
                   [] OTHER -> s
            ELSE s
       [] s.screenPage_ = "CAL_POINT" ->
            IF kstate = "PRESSED"
            THEN IF key = "s"
                 THEN commitCalPoint(s)
                 ELSE handleEditKeys(s, key, INPUT_HUMIDITY_MAXCHAR,
                                     INPUT_HUMIDITY_DECIMALS)
            ELSE s
       [] s.screenPage_ = "CAL_RESET" -> confirmCalReset(s, key, kstate)
       [] OTHER -> s

\* ------------------------------------------------------------ SerialCommunication
\* A byte is a one-character string; LF is the line feed and NUL the zero
\* byte.  A buffer is the sequence of the bytes written to it; the bytes
\* behind them are zero (memset).
SERIAL_CMD_START == "^"
SERIAL_CMD_DAQ_START == "d"
SERIAL_CMD_DAQ_STOP == "s"
SERIAL_CMD_SEPARATOR == "|"
SERIAL_CMD_END == "@"
SERIAL_CMD_EOL == "LF"
MAXPARAM_DAQ_START == 0
MAXPARAM_DAQ_STOP == 0
serialBufferLength == 128
fragmentMaxCount == 1
fragmentBufferLength == 20

\* The object after SerialCommunication() and the port with the bytes rx
\* pending.  sent is what the other end wrote, calls and ret the number of
\* calls of processIncoming and what the last one returned.
\* fragmentIndex is the highest index of fragmentBuffer written to (-1: none),
\* fragmentBytes the most bytes strcpy() wrote for one fragment, the zero byte
\* included.  A copy of more than fragmentBufferLength bytes runs over the
\* members that follow fragmentBufferElement0, the behaviour is undefined, and
\* ubRet is what the build then makes the call return.
InitSerial(rx) ==
  [rx |-> rx, tx |-> <<>>, serialBuffer |-> <<>>, trimmedSerialBuffer |-> <<>>,
   fragmentBuffer0 |-> <<>>, ret |-> FALSE, calls |-> 0, sent |-> rx,
   fragmentIndex |-> -1, fragmentBytes |-> 0, ubRet |-> FALSE]

\* Index of the first b in seq, 0 if there is none.
FirstIndex(seq, b) ==
  IF \E i \in 1..Len(seq) : seq[i] = b
  THEN CHOOSE i \in 1..Len(seq) :
         seq[i] = b /\ \A j \in 1..(i - 1) : seq[j] # b
  ELSE 0

\* The byte at index k of a zeroed buffer holding buf.
ByteAt(buf, k) == IF k <= Len(buf) THEN buf[k] ELSE "NUL"

\* The C string that starts a buffer: its bytes up to the first zero byte.
CStr(buf) ==
  LET z == FirstIndex(buf, "NUL")
  IN IF z = 0 THEN buf ELSE SubSeq(buf, 1, z - 1)

\* The string strtok() is handed as delimiters: &SERIAL_CMD_SEPARATOR is the
\* address of a single char member, and the member declared next,
\* MAXPARAM_DAQ_START, is the zero byte that ends the string.
Delimiters ==
  CStr(<<SERIAL_CMD_SEPARATOR,
         IF MAXPARAM_DAQ_START = 0 THEN "NUL" ELSE "SOH",
         IF MAXPARAM_DAQ_STOP = 0 THEN "NUL" ELSE "SOH">>)

\* The tokens successive calls of strtok() give for str: the maximal runs of
\* bytes that are not delimiters.
RECURSIVE strtok(_, _)
strtok(str, delims) ==
  LET isDelim(b) == \E i \in 1..Len(delims) : delims[i] = b
  IN IF str = <<>> THEN <<>>
     ELSE IF isDelim(Head(str)) THEN strtok(Tail(str), delims)
     ELSE LET stop == IF \E i \in 1..Len(str) : isDelim(str[i])
                      THEN CHOOSE i \in 1..Len(str) :
                             isDelim(str[i])
                             /\ \A j \in 1..(i - 1) : ~isDelim(str[j])
                      ELSE Len(str) + 1
          IN <<SubSeq(str, 1, stop - 1)>>
             \o strtok(SubSeq(str, stop + 1, Len(str)), delims)

\* Serial.readBytesUntil(terminator, buffer, length): the bytes read and the
\* bytes left pending.  The terminator is taken off the port and not stored;
\* without one the read ends when nothing more arrives.
readBytesUntil(rx, terminator, length) ==
  LET e == FirstIndex(rx, terminator)
      before == IF e = 0 THEN Len(rx) ELSE e - 1
  IN IF before >= length
     THEN [buf |-> SubSeq(rx, 1, length),
           rest |-> SubSeq(rx, length + 1, Len(rx))]
     ELSE [buf |-> SubSeq(rx, 1, before),
           rest |-> SubSeq(rx, before + 2, Len(rx))]

\* The part of processIncoming that works on the inner string.
extractFragments(c, trimmed) ==
  LET toks == strtok(trimmed, Delimiters)
  IN IF toks = <<>> THEN [c EXCEPT !.ret = FALSE]
     ELSE IF toks[1][1] \notin {SERIAL_CMD_DAQ_START, SERIAL_CMD_DAQ_STOP}
          THEN [c EXCEPT !.ret = FALSE]
          ELSE LET paramsCount == IF toks[1][1] = SERIAL_CMD_DAQ_START
                                  THEN MAXPARAM_DAQ_START ELSE MAXPARAM_DAQ_STOP
                   fragmentsExtracted ==
                     IF Len(toks) < paramsCount + 1 THEN Len(toks)
                     ELSE paramsCount + 1
                   overrun == Len(toks[1]) + 1 > fragmentBufferLength
               IN [c EXCEPT !.fragmentBuffer0 =
                               IF overrun
                               THEN SubSeq(toks[1], 1, fragmentBufferLength)
                               ELSE toks[1],
                            !.fragmentIndex = fragmentsExtracted - 1,
                            !.fragmentBytes = Len(toks[1]) + 1,
                            !.ret = IF overrun THEN c.ubRet
                                    ELSE /\ ~(fragmentsExtracted - 1 < paramsCount)
                                         /\ ~(Len(toks) > fragmentsExtracted)]

\* The part of processIncoming that reads a line that begins with START.
readCommand(c) ==
  LET r == readBytesUntil(c.rx, SERIAL_CMD_EOL, serialBufferLength - 1)
      a == [c EXCEPT !.rx = r.rest, !.serialBuffer = r.buf]
      endFlag == FirstIndex(CStr(r.buf), SERIAL_CMD_END)
  IN IF endFlag # 0 /\ ByteAt(r.buf, endFlag + 1) = "NUL"
     THEN LET trimmed == SubSeq(r.buf, 2, endFlag - 1)
          IN extractFragments([a EXCEPT !.trimmedSerialBuffer = trimmed], trimmed)
     ELSE [a EXCEPT !.ret = FALSE]

\* Variant: a byte that is not START is left on the port.
processIncoming_kept(c) ==
  IF c.rx # <<>> /\ Head(c.rx) = SERIAL_CMD_START
  THEN readCommand(c)
  ELSE [c EXCEPT !.ret = FALSE]

processIncoming(c) ==
  IF c.rx # <<>> /\ Head(c.rx) = SERIAL_CMD_START
  THEN readCommand(c)
  ELSE [c EXCEPT !.rx = IF c.rx = <<>> THEN <<>> ELSE Tail(c.rx),
                 !.ret = FALSE]

\* ---- outgoing frames
SERIAL_SEND_START == "^"
SERIAL_SEND_DATA == "d"
SERIAL_SEND_DATA_ERROR == "e"
SERIAL_SEND_DATA_CONTROLINACTIVE == "i"
SERIAL_SEND_SEPARATOR == "|"
SERIAL_SEND_END == "@"
SERIAL_SEND_EOL == "LF"
DECIMALS_HUMIDITY == 1
DECIMALS_TEMPERATURE == 1
DECIMALS_FANSPEED == 0

\* A double is held in hundredths.
ValUnit == 100

DigitChars == <<"0", "1", "2", "3", "4", "5", "6", "7", "8", "9">>

\* Serial.print(unsigned long): the decimal digits, most significant first.
RECURSIVE printNumber(_)
printNumber(n) ==
  IF n < 10 THEN <<DigitChars[n + 1]>>
  ELSE Append(printNumber(n \div 10), DigitChars[(n % 10) + 1])

\* The digits after the point: each round multiplies the remainder by ten
\* and writes its integer part.
RECURSIVE fractionDigits(_, _)
fractionDigits(remainder, digits) ==
  IF digits = 0 THEN <<>>
  ELSE LET scaled == remainder * 10
           toWrite == scaled \div ValUnit
       IN <<DigitChars[toWrite + 1]>>
            \o fractionDigits(scaled - toWrite * ValUnit, digits - 1)

\* Serial.print(double, digits): sign, half a unit of the last place added,
\* integer part, and the point and the digits when digits > 0.
printFloat(number, digits) ==
  LET magnitude == IF number < 0 THEN -number ELSE number
      rounding == (ValUnit \div 2) \div Pow10(digits)
      rounded == magnitude + rounding
      int_part == rounded \div ValUnit
      remainder == rounded - int_part * ValUnit
  IN (IF number < 0 THEN <<"-">> ELSE <<>>)
       \o printNumber(int_part)
       \o (IF digits > 0 THEN <<".">> \o fractionDigits(remainder, digits)
           ELSE <<>>)

\* Variant: the marker is never written.
dataField_noMarker(shown, number, digits, marker) ==
  printFloat(number, digits)

\* One field of the data frame: the number when shown, else the marker.
dataField(shown, number, digits, marker) ==
  IF shown THEN printFloat(number, digits) ELSE <<marker>>

\* a holds the arguments of the call under the names of the parameters.
sendData(c, a) ==
  [c EXCEPT !.tx = @
       \o <<SERIAL_SEND_START, SERIAL_SEND_DATA, SERIAL_SEND_SEPARATOR>>
       \o dataField(a.humidityOK, a.humidity, DECIMALS_HUMIDITY,
                    SERIAL_SEND_DATA_ERROR)
       \o <<SERIAL_SEND_SEPARATOR>>
       \o dataField(a.humidityOK, a.temperature, DECIMALS_TEMPERATURE,
                    SERIAL_SEND_DATA_ERROR)
       \o <<SERIAL_SEND_SEPARATOR>>
       \o dataField(a.fanSpeedOK, a.fanSpeed, DECIMALS_FANSPEED,
                    SERIAL_SEND_DATA_ERROR)
       \o <<SERIAL_SEND_SEPARATOR>>
       \o dataField(a.humidityControlActive, a.humidityTarget,
                    DECIMALS_HUMIDITY, SERIAL_SEND_DATA_CONTROLINACTIVE)
       \o <<SERIAL_SEND_SEPARATOR>>
       \o dataField(a.fanSpeedControlActive, a.fanSpeedTarget,
                    DECIMALS_FANSPEED, SERIAL_SEND_DATA_CONTROLINACTIVE)
       \o <<SERIAL_SEND_END, SERIAL_SEND_EOL>>]

\* ------------------------------------------------------------ construction
\* The object after HumidOSH::HumidOSH() and init().  `chamber' is a global, so
\* the members the constructor does not set start as zero.  trigOK is whether
\* the trigger issued by init() went through.
InitChamber(dutyMin, dutyMax, trigOK, tail) ==
  [ \* limits handed to the constructor
    humidityMin_ |-> RH_MIN, humidityMax_ |-> RH_MAX,
    pumpDutyCycleMin_ |-> dutyMin, pumpDutyCycleMax_ |-> dutyMax,
    fanSpeedMin_ |-> FANSPEED_USER_MIN, fanSpeedMax_ |-> FANSPEED_USER_MAX,
    keyHoldDuration_ |-> KEY_HOLD_DURATION,
    \* whether a product of ints that is out of range keeps its low 16 bits
    intWraps |-> TRUE,
    \* acquisition
    DAQTimerStart_ |-> InitTriggerTime - PERIOD_DAQ,
    humidityOK_ |-> FALSE, newHumidityReadingPrint_ |-> FALSE,
    newHumidityReadingControl_ |-> FALSE,
    humidityTriggered_ |-> TRUE, humidityTriggeredOK_ |-> trigOK,
    fanSpeedOK_ |-> FALSE, newFanSpeedReadingPrint_ |-> FALSE,
    \* control
    humidityControlActive_ |-> FALSE, humidityErrorHandlingActive_ |-> FALSE,
    humidityTarget_ |-> RH_MIN + (RH_MAX - RH_MIN) \div 2,
    humidityControlOutput_ |-> 0, pumpDutyCycle_ |-> 0,
    fanSpeedControlActive_ |-> FALSE, fanSpeedTarget_ |-> FANSPEED_USER_MAX,
    \* screen
    screenPage_ |-> "READINGS", screenPageChanged_ |-> TRUE,
    holdHumidityButton_ |-> FALSE, holdFanSpeedButton_ |-> FALSE,
    humidityControlRecentlyStopped_ |-> FALSE,
    fanSpeedControlRecentlyStopped_ |-> FALSE,
    errorInputHumidity_ |-> FALSE, holdTimeStart_ |-> 0,
    keyHoldSecondsRemaining_ |-> 0, calibratingPoint1 |-> FALSE,
    calResetSplashTimerStart_ |-> 0, errorInputFlashOn_ |-> FALSE,
    errorInputTimerFlashCounter_ |-> 0, errorInputTimerStart_ |-> 0,
    \* input editor
    decimalUsed_ |-> FALSE, inputCharCount_ |-> 0, inputIntCount_ |-> 0,
    inputDecimalCount_ |-> 0, inputValue_ |-> 0,
    \* output pins
    outPump |-> 0, outValveDry |-> FALSE, outValveWet |-> FALSE,
    outFanPWMDrain |-> TRUE, outLEDRH |-> FALSE, outLEDFan |-> FALSE,
    \* devices
    pidIntegralZero |-> TRUE, pidSeeded |-> FALSE,
    fanTargetReg |-> 0,
    sensorTriggerTime |-> InitTriggerTime, sensorRHRaw |-> 0,
    sensorSample |-> 0, drawsRH |-> 0,
    msSinceFetch |-> 0, triggersSinceFetch |-> 1,
    calPoint1 |-> <<>>, calPoint2 |-> <<>>,
    stackTail |-> tail,
    \* driver call logs
    obsDaq |-> "none", obsCtl |-> "none", obsTriggerCalls |-> 0,
    obsFetchCalls |-> 0, obsFetchOk |-> FALSE, obsFetchGap |-> 0,
    obsFanReadCalls |-> 0, obsFanWrites |-> 0, obsFanWriteOk |-> FALSE,
    obsAcqFlags |-> <<>> ]

\* init() ends with delay(PERIOD_DAQ_HUMIDITY_TRIGGER + 10).
InitNow == InitTriggerTime + PERIOD_DAQ_HUMIDITY_TRIGGER + 10

\* ------------------------------------------------------------ environment
\* What the user and the bus may do is fixed per specification by `profile':
\*   "control"  the humidity toggle key; the humidity sensor may fail;
\*   "fan"      the fan toggle key; the fan controller may fail;
\*   "ui"       the settings, 5 and fan toggle keys; writes to the fan
\*              controller may fail; run() is called about once a second;
\*   "hold"     both toggle keys; the fan controller may fail;
\*   "live"     no key; the humidity sensor may fail until the bus heals;
\*   "countdown" the humidity toggle key; the hold duration and what the build
\*              makes of an int product out of range are chosen at the start;
\*   "acq"      the two toggle keys, the settings and 5 keys; the humidity sensor
\*              and the fan controller may fail; run() about once a second.
KeysOf(p) ==
  CASE p = "control" -> {"h"}
    [] p = "fan" -> {"f"}
    [] p = "ui" -> {"s", "f", "5"}
    [] p = "hold" -> {"h", "f"}
    [] p = "keys" -> {"s", "0", "1", "5", ".", "d"}
    [] p = "cal" -> {"s", "1", "3", "5"}
    [] p = "flash" -> {"s", "5"}
    [] p = "calpoint" -> {"s", "1", "2", "5"}
    [] p = "acq" -> {"h", "f", "s", "5"}
    [] p = "countdown" -> {"h"}
    [] OTHER -> {}

\* Time between two calls of run().  With the calibration pages the calls are
\* 500 ms apart: the events of one key (press, release, idle) then fit in
\* the 2000 ms of the reset page.
DeltasOf(p) ==
  CASE p \in {"ui", "keys", "calpoint", "acq"} -> {1050}
    [] p = "cal" -> {500}
    [] OTHER -> TickDeltas

\* What the PID may compute when it is asked to.
OutputsOf(p) == IF p = "control" THEN ControlOutputs ELSE {PID_OUT_MAX * OutUnit}

\* Raw readings the sensor may hold when a measurement is fetched.
RawsOf(p) == IF p = "calpoint" THEN {3, 8} ELSE {0}

\* Outcomes the bus can produce for one retried transaction with the humidity
\* sensor and with the fan controller.
SensorBus ==
  CASE profile \in {"control", "live"} /\ ~busHealthy -> BusPatterns
    [] profile = "acq" -> {AllOK, AllFail}
    [] OTHER -> {AllOK}

FanBus ==
  CASE profile \in {"fan", "ui", "hold"} -> BusPatterns
    [] profile = "acq" -> {AllOK, AllFail}
    [] OTHER -> {AllOK}

\* The outcomes to draw for a transaction: only when it is going to be made.
BusIf(bus, used) == IF used THEN bus ELSE {AllOK}

InitProfile(p) ==
  /\ \E trigOK \in (IF p \in {"control", "live"} THEN BOOLEAN ELSE {TRUE}),
        tail \in (IF KeysOf(p) \cap AllDigitKeys = {} THEN {-1} ELSE StackTails) :
       chamber = InitChamber(PUMP_MIN, PUMP_MAX, trigOK, tail)
  /\ now = InitNow
  /\ keypad = [kstate |-> "IDLE", kchar |-> "x"]
  /\ pc = "getKey"
  /\ profile = p
  /\ busHealthy = FALSE
  /\ rOutcomes = AllOK
  /\ rResult = [ret |-> FALSE, calls |-> 0]
  /\ presses = 0
  /\ serial = InitSerial(<<>>)

Init == InitProfile("control")

\* ------------------------------------------------------------ loop()
\* keypad.getKey() when the scan changes the state of the key: the listener
\* keypadEvent() calls handleKeyPress with the new state in place.
KeyEvent(newState, key) ==
  /\ pc = "getKey"
  /\ keypad' = [kstate |-> newState, kchar |-> key]
  /\ \E fanWF \in BusIf(FanBus, key \in {"f", "s"}) :
       chamber' = handleKeyPress(chamber, key, newState, now, fanWF)
  /\ pc' = "run"
  /\ UNCHANGED <<now, profile, busHealthy, rOutcomes, rResult, serial>>

KeyPressed ==
  /\ keypad.kstate = "IDLE"
  /\ \E key \in KeysOf(profile) : KeyEvent("PRESSED", key)
  /\ UNCHANGED presses

KeyHeld ==
  /\ keypad.kstate = "PRESSED"
  /\ KeyEvent("HOLD", keypad.kchar)
  /\ UNCHANGED presses

KeyReleased ==
  /\ keypad.kstate \in {"PRESSED", "HOLD"}
  /\ KeyEvent("RELEASED", keypad.kchar)
  /\ UNCHANGED presses

KeyIdled ==
  /\ keypad.kstate = "RELEASED"
  /\ KeyEvent("IDLE", keypad.kchar)
  /\ UNCHANGED presses

\* keypad.getKey() when nothing changed.
NoKeyEvent ==
  /\ pc = "getKey"
  /\ keypad.kstate # "RELEASED"
  /\ pc' = "run"
  /\ UNCHANGED <<chamber, now, keypad, profile, busHealthy, rOutcomes,
                 rResult, presses, serial>>

\* The branches of run() that consume an input, as run() decides them.
FetchDue(s, t) ==
  /\ ElapsedAtLeast(t, s.DAQTimerStart_,
                    PERIOD_DAQ - PERIOD_DAQ_HUMIDITY_TRIGGER)
  /\ s.humidityTriggered_
  /\ ElapsedAtLeast(t, s.DAQTimerStart_, PERIOD_DAQ)

TriggerDue(s, t) ==
  /\ ElapsedAtLeast(t, s.DAQTimerStart_,
                    PERIOD_DAQ - PERIOD_DAQ_HUMIDITY_TRIGGER)
  /\ ~FetchDue(s, t)
  /\ ~s.humidityTriggered_

\* The program uses the clock only in differences millis() - stamp.  After a
\* call of run() made d ms after the previous one, the clock is therefore set
\* back by d together with every stored time stamp, which leaves every such
\* difference as it is and keeps the clock at InitNow.  A stamp that has become
\* older than the longest duration its age is ever compared with is kept at
\* that age (plus AgeSlack): every comparison made on it comes out the same.
HoldSpan(s) ==
  IF profile = "countdown" /\ s.screenPage_ = "HOLD" THEN MaxHeld
  ELSE s.keyHoldDuration_

Rebase(s, d) ==
  LET shift(x, longest) ==
        IF now - (x - d) > longest + AgeSlack
        THEN now - (longest + AgeSlack)
        ELSE x - d
  IN [s EXCEPT !.DAQTimerStart_ = shift(@, PERIOD_DAQ),
               !.holdTimeStart_ = shift(@, HoldSpan(s)),
               !.calResetSplashTimerStart_ = shift(@, PERIOD_SCREEN_CALRESET),
               !.errorInputTimerStart_ =
                  shift(@, ERROR_INPUT_FLASH_COUNT * PERIOD_ERROR_INPUT_FLASH),
               !.sensorTriggerTime = shift(@, PERIOD_DAQ_HUMIDITY_TRIGGER)]

\* chamber.run(), d ms after the previous call.
Run ==
  /\ pc = "run"
  /\ \E d \in DeltasOf(profile) :
       /\ now' = now
       /\ \E trigF \in BusIf(SensorBus, TriggerDue(chamber, now + d)),
             humF \in BusIf(SensorBus, FetchDue(chamber, now + d)
                                       /\ chamber.humidityTriggeredOK_),
             fanF \in BusIf(FanBus, FetchDue(chamber, now + d)),
             fanWF \in BusIf(FanBus, chamber.screenPage_ = "HOLD"
                                     /\ chamber.holdFanSpeedButton_),
             O \in (IF chamber.humidityControlActive_
                       /\ ~chamber.humidityErrorHandlingActive_
                    THEN OutputsOf(profile) ELSE {0}),
             raw \in (IF FetchDue(chamber, now + d) /\ chamber.humidityTriggeredOK_
                      THEN RawsOf(profile) ELSE {chamber.sensorSample}) :
            chamber' = Rebase(run([chamber EXCEPT !.sensorSample = raw],
                                  now + d, trigF, humF, fanF, fanWF,
                                  O, keypad.kstate), d)
  /\ pc' = "getKey"
  /\ UNCHANGED <<keypad, profile, busHealthy, rOutcomes, rResult, presses,
                 serial>>

Next ==
  \/ KeyPressed
  \/ KeyHeld
  \/ KeyReleased
  \/ KeyIdled
  \/ NoKeyEvent
  \/ Run

Spec == Init /\ [][Next]_vars

SpecFan == InitProfile("fan") /\ [][Next]_vars

SpecUI == InitProfile("ui") /\ [][Next]_vars

SpecHold == InitProfile("hold") /\ [][Next]_vars

\* A settings session: only the presses of the keys are followed.  On the
\* pages the settings key leads to, handleKeyPress acts on a press alone, so
\* the hold, release and idle events that follow a press are left out.
PressKey ==
  /\ presses < MaxPresses
  /\ \E key \in KeysOf(profile) : KeyEvent("PRESSED", key)
  /\ presses' = presses + 1

NextKeys ==
  \/ PressKey
  \/ NoKeyEvent
  \/ Run

SpecKeys == InitProfile("keys") /\ [][NextKeys]_vars

SpecCalPoint == InitProfile("calpoint") /\ [][NextKeys]_vars

\* A session of at most MaxPresses presses with every event of the keypad.
\* How many key presses a session is followed for.
PressesOf(p) == IF p = "acq" THEN AcqPresses ELSE MaxPresses

KeyPressedInSession ==
  /\ presses < PressesOf(profile)
  /\ keypad.kstate = "IDLE"
  /\ \E key \in KeysOf(profile) : KeyEvent("PRESSED", key)
  /\ presses' = presses + 1

NextSession ==
  \/ KeyPressedInSession
  \/ KeyHeld
  \/ KeyReleased
  \/ KeyIdled
  \/ NoKeyEvent
  \/ Run

SpecCal == InitProfile("cal") /\ [][NextSession]_vars

SpecAcq == InitProfile("acq") /\ [][NextSession]_vars

\* The humidity key under every hold duration of HoldDurations.  A hold is
\* followed until it has lasted MaxHeld ms.
InitCountdown ==
  /\ \E D \in HoldDurations, w \in BOOLEAN :
       chamber = [InitChamber(PUMP_MIN, PUMP_MAX, TRUE, -1)
                    EXCEPT !.keyHoldDuration_ = D, !.intWraps = w]
  /\ now = InitNow
  /\ keypad = [kstate |-> "IDLE", kchar |-> "x"]
  /\ pc = "getKey"
  /\ profile = "countdown"
  /\ busHealthy = FALSE
  /\ rOutcomes = AllOK
  /\ rResult = [ret |-> FALSE, calls |-> 0]
  /\ presses = 0
  /\ serial = InitSerial(<<>>)

RunWhileHeld ==
  /\ chamber.screenPage_ = "HOLD" =>
       \A d \in DeltasOf(profile) : (now - chamber.holdTimeStart_) + d <= MaxHeld
  /\ Run

NextCountdown ==
  \/ KeyPressed
  \/ KeyHeld
  \/ KeyReleased
  \/ KeyIdled
  \/ NoKeyEvent
  \/ RunWhileHeld

SpecCountdown == InitCountdown /\ [][NextCountdown]_vars

\* The sessions of both kinds: between them they show every page.
SpecPages ==
  (InitProfile("cal") \/ InitProfile("acq")) /\ [][NextSession]_vars

\* ------------------------------------------------------------ liveness
\* The bus heals: from now on every transaction succeeds.
Heal ==
  /\ ~busHealthy
  /\ busHealthy' = TRUE
  /\ UNCHANGED <<chamber, now, keypad, pc, profile, rOutcomes, rResult,
                 presses, serial>>

NextLive ==
  \/ NoKeyEvent
  \/ Run
  \/ Heal

\* A step that is a scan of the keypad, and one that is a call of run().
ScanStep == pc = "getKey" /\ pc' = "run"

RunStep == pc = "run" /\ pc' = "getKey"

\* A settings session in a loop() that never stops.
SpecFlash ==
  /\ InitProfile("flash")
  /\ [][NextKeys]_vars
  /\ WF_pc(ScanStep)
  /\ WF_pc(RunStep)

\* loop() never stops: a scan of the keypad that is due is made, and so is a
\* call of run().
SpecLive ==
  /\ InitProfile("live")
  /\ [][NextLive]_vars
  /\ WF_pc(ScanStep)
  /\ WF_pc(RunStep)

\* ------------------------------------------------------------ retry alone
\* retryFunc wrapped around an operation whose attempts come out as rOutcomes.
InitRetry ==
  /\ chamber = InitChamber(PUMP_MIN, PUMP_MAX, TRUE, -1)
  /\ now = InitNow
  /\ keypad = [kstate |-> "IDLE", kchar |-> "x"]
  /\ pc = "retry"
  /\ profile = "retry"
  /\ busHealthy = FALSE
  /\ rOutcomes \in [1..RETRIES_MAX -> BOOLEAN]
  /\ rResult = [ret |-> FALSE, calls |-> 0]
  /\ presses = 0
  /\ serial = InitSerial(<<>>)

\* retryFunc(&HumidOSH::triggerHumidity)
RetryTrigger ==
  /\ pc = "retry"
  /\ LET r == retryFunc("triggerHumidity", clearObs(chamber), now, rOutcomes)
     IN /\ chamber' = r.s
        /\ rResult' = [ret |-> r.ret, calls |-> r.s.obsTriggerCalls]
  /\ pc' = "done"
  /\ UNCHANGED <<now, keypad, profile, busHealthy, rOutcomes, presses, serial>>

\* retryFunc(&HumidOSH::toggleFanSpeedControl, true)
RetryToggleFan ==
  /\ pc = "retry"
  /\ LET r == retryFunc("toggleFanSpeedControl", clearObs(chamber), TRUE, rOutcomes)
     IN /\ chamber' = r.s
        /\ rResult' = [ret |-> r.ret, calls |-> r.s.obsFanWrites]
  /\ pc' = "done"
  /\ UNCHANGED <<now, keypad, profile, busHealthy, rOutcomes, presses, serial>>

NextRetry ==
  \/ RetryTrigger
  \/ RetryToggleFan

SpecRetry == InitRetry /\ [][NextRetry]_vars

\* ------------------------------------------------------------ serial input alone
\* Bytes the other end may send, and how many of them are pending at most.
Bytes == {"^", "d", "s", "x", "|", "@", "LF", "NUL"}

MaxRx == 5

RECURSIVE SeqsUpTo(_, _)
SeqsUpTo(S, n) ==
  IF n = 0 THEN {<<>>}
  ELSE LET shorter == SeqsUpTo(S, n - 1)
       IN shorter \cup {Append(q, b) : q \in {r \in shorter : Len(r) = n - 1},
                                       b \in S}

InitSerialIn ==
  /\ chamber = InitChamber(PUMP_MIN, PUMP_MAX, TRUE, -1)
  /\ now = InitNow
  /\ keypad = [kstate |-> "IDLE", kchar |-> "x"]
  /\ pc = "serial"
  /\ profile = "serial"
  /\ busHealthy = TRUE
  /\ rOutcomes = AllOK
  /\ rResult = [ret |-> FALSE, calls |-> 0]
  /\ presses = 0
  /\ \E rx \in SeqsUpTo(Bytes, MaxRx) : serial = InitSerial(rx)

\* A call of processIncoming(); the calls go on until nothing is pending.
ProcessIncoming ==
  /\ pc = "serial"
  /\ serial.rx # <<>>
  /\ serial' = [processIncoming(serial) EXCEPT !.calls = @ + 1]
  /\ UNCHANGED <<chamber, now, keypad, pc, profile, busHealthy, rOutcomes,
                 rResult, presses>>

SpecSerialIn == InitSerialIn /\ [][ProcessIncoming]_vars

\* Lines of every length: a command character, a run of up to MaxFill bytes,
\* and the end of the frame with or without a parameter before it.
MaxFill == 122

Fill(n) == [i \in 1..n |-> "x"]

Lines ==
  {<<SERIAL_CMD_START, cmd>> \o Fill(n) \o tail \o <<SERIAL_CMD_EOL>> :
     cmd \in {SERIAL_CMD_DAQ_START, SERIAL_CMD_DAQ_STOP},
     n \in 0..MaxFill,
     tail \in {<<SERIAL_CMD_END>>,
               <<SERIAL_CMD_SEPARATOR, "x", SERIAL_CMD_END>>}}

InitSerialLine ==
  /\ chamber = InitChamber(PUMP_MIN, PUMP_MAX, TRUE, -1)
  /\ now = InitNow
  /\ keypad = [kstate |-> "IDLE", kchar |-> "x"]
  /\ pc = "serial"
  /\ profile = "line"
  /\ busHealthy = TRUE
  /\ rOutcomes = AllOK
  /\ rResult = [ret |-> FALSE, calls |-> 0]
  /\ presses = 0
  /\ \E rx \in Lines, u \in BOOLEAN :
       serial = [InitSerial(rx) EXCEPT !.ubRet = u]

SpecSerialLine == InitSerialLine /\ [][ProcessIncoming]_vars

\* ------------------------------------------------------------ serial output alone
\* Values handed to sendData, in hundredths.
Humidities == {0, 4, 4560, 4565, 9996}
Temperatures == {-1234, -4, 2500}
FanSpeeds == {0, 120049, 149950}
HumidityTargets == {995, 5000}
FanTargets == {0, 4550}

SendArgs ==
  [humidityOK : BOOLEAN, humidity : Humidities, temperature : Temperatures,
   fanSpeedOK : BOOLEAN, fanSpeed : FanSpeeds,
   humidityControlActive : BOOLEAN, humidityTarget : HumidityTargets,
   fanSpeedControlActive : BOOLEAN, fanSpeedTarget : FanTargets]

InitSerialOut ==
  /\ chamber = InitChamber(PUMP_MIN, PUMP_MAX, TRUE, -1)
  /\ now = InitNow
  /\ keypad = [kstate |-> "IDLE", kchar |-> "x"]
  /\ pc = "send"
  /\ profile = "send"
  /\ busHealthy = TRUE
  /\ rOutcomes = AllOK
  /\ rResult = [ret |-> FALSE, calls |-> 0]
  /\ presses = 0
  /\ \E a \in SendArgs : serial = [args |-> a] @@ InitSerial(<<>>)

\* One call of sendData() with the arguments chosen at the start.
SendData ==
  /\ pc = "send"
  /\ serial.calls = 0
  /\ serial' = [sendData(serial, serial.args) EXCEPT !.calls = 1]
  /\ UNCHANGED <<chamber, now, keypad, pc, profile, busHealthy, rOutcomes,
                 rResult, presses>>

SpecSerialOut == InitSerialOut /\ [][SendData]_vars

\* ------------------------------------------------------------ the clock wrapping
\* How far from a wrap of the clock the calls of run() are followed, and how
\* long before the wrap the acquisition may be from which they start.
WrapWindow == 3000
WrapLeads == {1, 200, 700, 1000, 1400, 2900}

\* The clock values the leads stand for: before the counter returns to zero
\* (2^32 - k) and before its top bit is set (2^31 - k).
WrapStarts == {-k : k \in WrapLeads} \cup {(MaxInt32 - k) + 1 : k \in WrapLeads}

InWindow(c) ==
  \/ c >= -WrapWindow /\ c < WrapWindow
  \/ c >= MaxInt32 - WrapWindow
  \/ c < MinInt32 + WrapWindow

\* The object as run() leaves it after its first acquisition, the acquisition
\* having been made when the clock read c.  msSinceFetch is the time since
\* the last acquisition and triggersSinceFetch the triggers issued since.
AcquiredAt(c) ==
  [run(InitChamber(PUMP_MIN, PUMP_MAX, TRUE, -1), InitNow,
       AllOK, AllOK, AllOK, AllOK, 0, "IDLE")
     EXCEPT !.DAQTimerStart_ = c,
            !.sensorTriggerTime = Sub32(c, PERIOD_DAQ_HUMIDITY_TRIGGER + 10),
            !.msSinceFetch = 0, !.triggersSinceFetch = 0]

InitWrap ==
  /\ \E c \in WrapStarts : now = c /\ chamber = AcquiredAt(c)
  /\ keypad = [kstate |-> "IDLE", kchar |-> "x"]
  /\ pc = "wrap"
  /\ profile = "wrap"
  /\ busHealthy = TRUE
  /\ rOutcomes = AllOK
  /\ rResult = [ret |-> FALSE, calls |-> 0]
  /\ presses = 0
  /\ serial = InitSerial(<<>>)

\* loop() with no key: run() is called d ms after the previous call.
Tick ==
  /\ pc = "wrap"
  /\ InWindow(now)
  /\ \E d \in TickDeltas :
       /\ now' = Add32(now, d)
       /\ LET r == run(chamber, now', AllOK, AllOK, AllOK, AllOK, 0, "IDLE")
          IN chamber' =
               [r EXCEPT !.msSinceFetch =
                            IF r.obsDaq = "fetch" THEN 0 ELSE @ + d,
                         !.triggersSinceFetch =
                            CASE r.obsDaq = "fetch" -> 0
                              [] r.obsDaq = "trigger" -> @ + 1
                              [] OTHER -> @]
  /\ UNCHANGED <<keypad, pc, profile, busHealthy, rOutcomes, rResult, presses,
                 serial>>

SpecWrap == InitWrap /\ [][Tick]_vars

\* ------------------------------------------------------------ actuation alone
\* Duty-cycle limits handed to the constructor, dutyMin <= dutyMax.
DutyLimits == {0, 60, 200, 255}

\* Humidity control has been switched on with a good reading pending.
InitAct ==
  /\ \E dutyMin \in DutyLimits, dutyMax \in DutyLimits :
       /\ dutyMin <= dutyMax
       /\ chamber =
            [toggleHumidityControl(InitChamber(dutyMin, dutyMax, TRUE, -1), TRUE)
               EXCEPT !.humidityOK_ = TRUE,
                      !.newHumidityReadingPrint_ = TRUE,
                      !.newHumidityReadingControl_ = TRUE]
  /\ now = InitNow
  /\ keypad = [kstate |-> "IDLE", kchar |-> "x"]
  /\ pc = "control"
  /\ profile = "actuation"
  /\ busHealthy = TRUE
  /\ rOutcomes = AllOK
  /\ rResult = [ret |-> FALSE, calls |-> 0]
  /\ presses = 0
  /\ serial = InitSerial(<<>>)

\* The control part of run() for any output the PID can give.
ControlStep ==
  /\ pc = "control"
  /\ \E O \in (PID_OUT_MIN * OutUnit)..(PID_OUT_MAX * OutUnit) :
       chamber' = humidityControl(clearObs(chamber), O)
  /\ pc' = "done"
  /\ UNCHANGED <<now, keypad, profile, busHealthy, rOutcomes, rResult,
                 presses, serial>>

SpecAct == InitAct /\ [][ControlStep]_vars

\* ============================================================ properties
\* A step in which the keypad listener is called with a key going to kstate.
KeyStep(kstate, key) ==
  /\ ScanStep
  /\ keypad' # keypad
  /\ keypad' = [kstate |-> kstate, kchar |-> key]

\* The three humidity actuators as the pins show them.
Actuators(s) == <<s.outPump, s.outValveWet, s.outValveDry>>

ActuatorsOff(s) == Actuators(s) = <<0, FALSE, FALSE>>

\* ------------------------------------------------------------ C1
\* C1: at the end of every call of run() with humidity control active and the
\* humidity reading not ok, the pump output is 0 and both valves are closed.
C1_FailSafe ==
  (pc = "getKey" /\ chamber.humidityControlActive_ /\ ~chamber.humidityOK_)
    => ActuatorsOff(chamber)

\* The pump had been driven at full duty when the reading failed.
C1_Witness ==
  /\ pc = "getKey"
  /\ chamber.humidityControlActive_
  /\ ~chamber.humidityOK_
  /\ chamber.obsCtl = "failsafe"
  /\ chamber.humidityControlOutput_ = 255 * OutUnit
  /\ chamber.pumpDutyCycle_ = 255
  /\ ActuatorsOff(chamber)

\* ------------------------------------------------------------ C2
InactiveOff(s) ==
  ~s.humidityControlActive_ => (ActuatorsOff(s) /\ s.pumpDutyCycle_ = 0)

\* A step that stops humidity control: the hold of the toggle key completes.
DisableStep ==
  \/ chamber.humidityControlActive_ /\ ~chamber'.humidityControlActive_
  \/ ~chamber.humidityControlRecentlyStopped_
       /\ chamber'.humidityControlRecentlyStopped_

\* C2: whenever humidity control is inactive, initially and after every step,
\* the pump duty is 0 and both valves are closed; a step that disables control
\* sets the pump duty to 0, closes both valves and clears the active flag.
C2_InactiveOff ==
  /\ InactiveOff(chamber)
  /\ [][ /\ InactiveOff(chamber')
         /\ DisableStep =>
              /\ ~chamber'.humidityControlActive_
              /\ chamber'.pumpDutyCycle_ = 0
              /\ ActuatorsOff(chamber') ]_vars

\* Control was stopped after the PID had asked for full humidification.
C2_Witness ==
  /\ ~chamber.humidityControlActive_
  /\ chamber.humidityControlRecentlyStopped_
  /\ ~chamber.humidityErrorHandlingActive_
  /\ chamber.humidityControlOutput_ = 255 * OutUnit
  /\ chamber.pumpDutyCycle_ = 0
  /\ ActuatorsOff(chamber)

\* ------------------------------------------------------------ C3
\* The duty the pump is driven at for a demand of m units of 1/OutUnit:
\* the whole part of the demand below the upper limit, 255 from it on.
DutyFor(m, dutyMax) == IF m < dutyMax * OutUnit THEN m \div OutUnit ELSE 255

\* C3: after a normal control step with output O and limits dutyMin <= dutyMax:
\* O >= dutyMin gives wet valve open, dry valve closed, pump at the whole part
\* of O if O < dutyMax else 255; O <= -dutyMin gives dry open, wet closed, pump
\* at the whole part of -O if -O < dutyMax else 255; anything else gives pump 0
\* and both valves closed.
C3_ActuationRule ==
  (pc = "done" /\ chamber.obsCtl = "compute") =>
    LET O == chamber.humidityControlOutput_
        dutyMin == chamber.pumpDutyCycleMin_
        dutyMax == chamber.pumpDutyCycleMax_
    IN /\ chamber.pumpDutyCycle_ = chamber.outPump
       /\ IF O >= dutyMin * OutUnit
          THEN Actuators(chamber) = <<DutyFor(O, dutyMax), TRUE, FALSE>>
          ELSE IF O <= -dutyMin * OutUnit
               THEN Actuators(chamber) = <<DutyFor(-O, dutyMax), FALSE, TRUE>>
               ELSE ActuatorsOff(chamber)

\* An output between 120 and 121 drives the pump at 120.
C3_Witness ==
  /\ pc = "done"
  /\ chamber.obsCtl = "compute"
  /\ chamber.pumpDutyCycleMin_ = 60
  /\ chamber.pumpDutyCycleMax_ = 255
  /\ chamber.humidityControlOutput_ = 120 * OutUnit + 1
  /\ Actuators(chamber) = <<120, TRUE, FALSE>>

\* C3 as stated: below the upper limit the pump is driven at O itself (at -O
\* when drying).
C3_PumpEqualsOutput ==
  (pc = "done" /\ chamber.obsCtl = "compute") =>
    LET O == chamber.humidityControlOutput_
        dutyMin == chamber.pumpDutyCycleMin_ * OutUnit
        dutyMax == chamber.pumpDutyCycleMax_ * OutUnit
    IN /\ (O >= dutyMin /\ O < dutyMax) => chamber.outPump * OutUnit = O
       /\ (O <= -dutyMin /\ -O < dutyMax) => chamber.outPump * OutUnit = -O

\* ------------------------------------------------------------ C4
\* The reading the control part of this call of run() sees is ok and fresh.
FreshForControl ==
  IF chamber'.obsDaq = "fetch"
  THEN chamber'.obsAcqFlags = <<TRUE, TRUE, TRUE>>
  ELSE chamber.humidityOK_ /\ chamber.newHumidityReadingControl_

\* C4: in a call of run() with control active, error handling set and a fresh
\* ok reading, the PID is reset and seeded, error handling is cleared, the
\* flag is consumed and no actuator changes; the PID computes only in a call
\* that starts with error handling clear and has a fresh ok reading, and only
\* such a call switches an actuator on.
C4_Recovery ==
  [][ RunStep =>
        /\ (/\ chamber.humidityControlActive_
            /\ chamber.humidityErrorHandlingActive_
            /\ FreshForControl)
             => /\ chamber'.obsCtl = "recover"
                /\ ~chamber'.humidityErrorHandlingActive_
                /\ chamber'.pidIntegralZero
                /\ chamber'.pidSeeded
                /\ ~chamber'.newHumidityReadingControl_
                /\ Actuators(chamber') = Actuators(chamber)
        /\ chamber'.obsCtl = "compute"
             => /\ chamber.humidityControlActive_
                /\ ~chamber.humidityErrorHandlingActive_
                /\ FreshForControl
        /\ (Actuators(chamber') # Actuators(chamber) /\ ~ActuatorsOff(chamber'))
             => chamber'.obsCtl = "compute" ]_vars

\* Recovery in the middle of a control run: the PID had been driving the pump.
C4_Witness ==
  /\ chamber.obsCtl = "recover"
  /\ chamber.humidityControlActive_
  /\ chamber.pidSeeded
  /\ chamber.pumpDutyCycle_ = 255
  /\ ActuatorsOff(chamber)

\* ------------------------------------------------------------ C5
\* The first attempt that succeeds, 0 if none does.
FirstSuccess(f) ==
  IF \E i \in 1..RETRIES_MAX : f[i]
  THEN CHOOSE i \in 1..RETRIES_MAX : f[i] /\ \A j \in 1..(i - 1) : ~f[j]
  ELSE 0

\* What the wrapped operations themselves change, and the call logs.
OperationEffects ==
  {"sensorTriggerTime", "fanTargetReg", "outFanPWMDrain", "outLEDFan",
   "fanSpeedControlActive_", "obsTriggerCalls", "obsFanWrites", "obsFanWriteOk"}

\* C5: retryFunc returns true after exactly k calls when the operation first
\* succeeds on attempt k <= RETRIES_MAX, returns false after exactly
\* RETRIES_MAX calls when every attempt fails, and changes nothing but what
\* the operation changes.
C5_BoundedRetry ==
  pc = "done" =>
    /\ IF FirstSuccess(rOutcomes) > 0
       THEN rResult = [ret |-> TRUE, calls |-> FirstSuccess(rOutcomes)]
       ELSE rResult = [ret |-> FALSE, calls |-> RETRIES_MAX]
    /\ \A field \in DOMAIN chamber \ OperationEffects :
         chamber[field] = InitChamber(PUMP_MIN, PUMP_MAX, TRUE, -1)[field]

\* Three failures, then a success, whatever comes after.
C5_Witness ==
  /\ pc = "done"
  /\ FirstSuccess(rOutcomes) = 4
  /\ rOutcomes[5] = FALSE
  /\ rResult = [ret |-> TRUE, calls |-> 4]

\* ------------------------------------------------------------ C6
\* C6: in a call of run() that fetches, humidityOK and the two fresh flags are
\* all true after the acquisition when the paired trigger had succeeded and
\* the fetch succeeded within its retries, and all false otherwise; when the
\* trigger had failed no fetch is attempted.
C6_AcquisitionFlags ==
  [][ (RunStep /\ chamber'.obsDaq = "fetch") =>
        LET fetched == /\ chamber.humidityTriggeredOK_
                       /\ chamber'.obsFetchCalls > 0
                       /\ chamber'.obsFetchOk
        IN /\ chamber'.obsAcqFlags = <<fetched, fetched, fetched>>
           /\ ~chamber.humidityTriggeredOK_ => chamber'.obsFetchCalls = 0
           /\ chamber'.obsFetchCalls <= RETRIES_MAX
           /\ (chamber.humidityTriggeredOK_ /\ ~fetched)
                => chamber'.obsFetchCalls = RETRIES_MAX ]_vars

\* A fetch that follows a good one fails on every attempt.
C6_Witness ==
  /\ chamber.obsDaq = "fetch"
  /\ chamber.obsFetchCalls = RETRIES_MAX
  /\ ~chamber.obsFetchOk
  /\ chamber.obsAcqFlags = <<FALSE, FALSE, FALSE>>
  /\ chamber.humidityErrorHandlingActive_
  /\ chamber.humidityControlOutput_ # 0

\* ------------------------------------------------------------ C7
\* C7: a call of run() that fetches without getting a reading is followed by
\* one that issues a trigger, and once the bus stays healthy humidityOK
\* becomes true.
C7_NoStall ==
  /\ (chamber.obsDaq = "fetch" /\ ~chamber.humidityOK_)
       ~> (chamber.obsDaq = "trigger")
  /\ busHealthy ~> chamber.humidityOK_

\* The bus has healed and the fetch still fails: its trigger had failed.
C7_Witness ==
  /\ busHealthy
  /\ chamber.obsDaq = "fetch"
  /\ chamber.obsFetchCalls = 0
  /\ ~chamber.humidityOK_

\* ------------------------------------------------------------ C8
\* C8: every fetch of the humidity is made at least
\* PERIOD_DAQ_HUMIDITY_TRIGGER ms after the trigger that started the
\* measurement.
C8_SettleDelay ==
  chamber.obsFetchCalls > 0 => chamber.obsFetchGap >= PERIOD_DAQ_HUMIDITY_TRIGGER

\* ------------------------------------------------------------ C9
\* C9: a key release that tries to enable the fan loop, when its write
\* succeeds, powers the rail, lights the indicator, sets the active flag and
\* leaves the stored target in the controller; a call of run() that tries to
\* disable it, when its write succeeds, leaves 0 in the controller, powers the
\* rail and the indicator off and clears the flag; when the write fails on all
\* RETRIES_MAX attempts the rail, the indicator and the flag stay as they were.
C9_FanAllOrNothing ==
  [][ ((RunStep \/ (ScanStep /\ keypad' # keypad)) /\ chamber'.obsFanWrites > 0) =>
        IF chamber'.obsFanWriteOk
        THEN IF KeyStep("RELEASED", "f")
             THEN /\ ~chamber'.outFanPWMDrain
                  /\ chamber'.outLEDFan
                  /\ chamber'.fanSpeedControlActive_
                  /\ chamber'.fanTargetReg = chamber.fanSpeedTarget_
             ELSE /\ RunStep
                  /\ chamber'.outFanPWMDrain
                  /\ ~chamber'.outLEDFan
                  /\ ~chamber'.fanSpeedControlActive_
                  /\ chamber'.fanTargetReg = 0
        ELSE /\ chamber'.obsFanWrites = RETRIES_MAX
             /\ chamber'.outFanPWMDrain = chamber.outFanPWMDrain
             /\ chamber'.outLEDFan = chamber.outLEDFan
             /\ chamber'.fanSpeedControlActive_ = chamber.fanSpeedControlActive_
             /\ chamber'.fanTargetReg = chamber.fanTargetReg ]_vars

\* Disable failed on every attempt: the fan is still powered and controlled.
C9_Witness ==
  /\ pc = "getKey"
  /\ chamber.obsFanWrites = RETRIES_MAX
  /\ ~chamber.obsFanWriteOk
  /\ chamber.fanSpeedControlActive_
  /\ ~chamber.outFanPWMDrain
  /\ chamber.outLEDFan
  /\ chamber.fanTargetReg = chamber.fanSpeedTarget_

\* ------------------------------------------------------------ C10
\* The settings key commits a value the fan-speed page accepts.
CommitFanTarget ==
  /\ KeyStep("PRESSED", "s")
  /\ chamber.screenPage_ = "FANSPEEDADJ"
  /\ chamber.inputCharCount_ > 0
  /\ chamber.inputValue_ >= chamber.fanSpeedMin_
  /\ chamber.inputValue_ <= chamber.fanSpeedMax_

\* The fan toggle key is released with the loop off and not just stopped.
EnableFan ==
  /\ KeyStep("RELEASED", "f")
  /\ chamber.screenPage_ = "READINGS"
  /\ ~chamber.fanSpeedControlActive_
  /\ ~chamber.fanSpeedControlRecentlyStopped_

\* C10: committing a valid fan-speed target while the fan loop is inactive
\* stores it and makes no write to the fan controller; an Enable whose write
\* succeeds leaves the stored target in the controller.
C10_TargetStoredNotWritten ==
  [][ /\ (CommitFanTarget /\ ~chamber.fanSpeedControlActive_)
           => /\ chamber'.fanSpeedTarget_ = chamber.inputValue_
              /\ chamber'.obsFanWrites = 0
              /\ chamber'.fanTargetReg = chamber.fanTargetReg
              /\ ~chamber'.fanSpeedControlActive_
      /\ (EnableFan /\ chamber'.obsFanWriteOk)
           => /\ chamber'.fanSpeedTarget_ = chamber.fanSpeedTarget_
              /\ chamber'.fanTargetReg = chamber.fanSpeedTarget_
              /\ chamber'.fanSpeedControlActive_ ]_vars

\* A new target has just been committed with the loop off: the controller
\* still holds what it held.
C10_Witness ==
  /\ pc = "run"
  /\ keypad = [kstate |-> "PRESSED", kchar |-> "s"]
  /\ chamber.screenPage_ = "CAL"
  /\ chamber.screenPageChanged_
  /\ ~chamber.fanSpeedControlActive_
  /\ chamber.fanSpeedTarget_ # FANSPEED_USER_MAX
  /\ chamber.fanTargetReg # chamber.fanSpeedTarget_
  /\ chamber.obsFanWrites = 0

\* ------------------------------------------------------------ C11
\* The Hold page is current and has been drawn.
HoldDrawn == chamber.screenPage_ = "HOLD" /\ ~chamber.screenPageChanged_

\* Time since the hold began.
HoldElapsed == now - chamber.holdTimeStart_

\* C11: in a call of run() on the Hold page the countdown goes down by one
\* when the time held plus 1000 ms for every second already counted has
\* reached the hold duration, and not otherwise; it reaches zero only when
\* the time held has reached the hold duration, and does so in the call that
\* finds that time reached with one second left; when it reaches zero the
\* page returns to Readings, humidity control is stopped if the hold is on its
\* key, and fan control is stopped if the hold is on the fan key and the
\* write of target 0 succeeds, otherwise left as it is; while it has not
\* reached zero no control loop is stopped.
C11_HoldCompletes ==
  [][ (RunStep /\ HoldDrawn) =>
        LET left == chamber.keyHoldSecondsRemaining_
            due == HoldElapsed' + (left - 1) * 1000 >= chamber.keyHoldDuration_
        IN /\ chamber'.keyHoldSecondsRemaining_ = IF due THEN left - 1 ELSE left
           /\ (left = 1 /\ HoldElapsed' >= chamber.keyHoldDuration_)
                => chamber'.keyHoldSecondsRemaining_ = 0
           /\ chamber'.keyHoldSecondsRemaining_ = 0 =>
                /\ HoldElapsed' >= chamber.keyHoldDuration_
                /\ chamber'.screenPage_ = "READINGS"
                /\ chamber.holdHumidityButton_ =>
                     /\ ~chamber'.humidityControlActive_
                     /\ ActuatorsOff(chamber')
                /\ chamber.holdFanSpeedButton_ =>
                     /\ chamber'.obsFanWrites > 0
                     /\ chamber'.fanSpeedControlActive_
                          = (chamber.fanSpeedControlActive_
                               /\ ~chamber'.obsFanWriteOk)
           /\ chamber'.keyHoldSecondsRemaining_ > 0 =>
                /\ chamber'.humidityControlActive_ = chamber.humidityControlActive_
                /\ chamber'.fanSpeedControlActive_ = chamber.fanSpeedControlActive_
                /\ chamber'.obsFanWrites = 0 ]_vars

\* The hold on the humidity key has just completed with the key still held.
C11_Witness ==
  /\ pc = "getKey"
  /\ keypad = [kstate |-> "HOLD", kchar |-> "h"]
  /\ chamber.screenPage_ = "READINGS"
  /\ chamber.screenPageChanged_
  /\ chamber.keyHoldSecondsRemaining_ = 0
  /\ chamber.humidityControlRecentlyStopped_
  /\ ~chamber.humidityControlActive_
  /\ chamber.humidityControlOutput_ # 0

\* C11 as stated: with the key still held, the call of run() that finds the
\* time held at or past the hold duration brings the countdown to zero, stops
\* the loop the hold is on and returns to Readings.
C11_StopsWhenDurationReached ==
  [][ (RunStep /\ HoldDrawn /\ keypad.kstate = "HOLD"
         /\ HoldElapsed' >= chamber.keyHoldDuration_) =>
        /\ chamber'.keyHoldSecondsRemaining_ = 0
        /\ chamber'.screenPage_ = "READINGS"
        /\ chamber.holdHumidityButton_ => ~chamber'.humidityControlActive_
        /\ chamber.holdFanSpeedButton_ => ~chamber'.fanSpeedControlActive_ ]_vars

\* ------------------------------------------------------------ C12
\* C12: a call of run() that finds the key released on the Hold page, the
\* countdown not yet at zero, returns to Readings and leaves both active
\* flags and every actuator output as they were.
C12_HoldAbandoned ==
  [][ (RunStep /\ HoldDrawn /\ keypad.kstate = "RELEASED"
         /\ chamber.keyHoldSecondsRemaining_ >= 1) =>
        /\ chamber'.screenPage_ = "READINGS"
        /\ chamber'.humidityControlActive_ = chamber.humidityControlActive_
        /\ chamber'.fanSpeedControlActive_ = chamber.fanSpeedControlActive_
        /\ Actuators(chamber') = Actuators(chamber)
        /\ chamber'.outFanPWMDrain = chamber.outFanPWMDrain ]_vars

\* ------------------------------------------------------------ C13
\* C13: on Readings, a release of a toggle key that was pressed and never
\* held starts humidity control when it is inactive, and fan control when it
\* is inactive and the write of the target succeeds.
C13_PressReleaseStarts ==
  [][ /\ (/\ KeyStep("RELEASED", "h")
          /\ keypad.kstate = "PRESSED"
          /\ chamber.screenPage_ = "READINGS"
          /\ ~chamber.humidityControlActive_)
           => chamber'.humidityControlActive_
      /\ (/\ KeyStep("RELEASED", "f")
          /\ keypad.kstate = "PRESSED"
          /\ chamber.screenPage_ = "READINGS"
          /\ ~chamber.fanSpeedControlActive_
          /\ chamber'.obsFanWriteOk)
           => chamber'.fanSpeedControlActive_ ]_vars

\* ------------------------------------------------------------ C14
\* A step of the settings session in which the given key is pressed.
PressStep(key) ==
  /\ ScanStep
  /\ presses' = presses + 1
  /\ keypad'.kchar = key

\* The settings key is pressed on the given page with characters entered.
Commit(page) ==
  /\ PressStep("s")
  /\ chamber.screenPage_ = page
  /\ chamber.inputCharCount_ > 0

Targets(s) == <<s.humidityTarget_, s.fanSpeedTarget_>>

\* What a commit of inputValue_ against [min, max] leaves: the error page and
\* the field in error with both targets as they were, or the value as the
\* target of the field and the next page.
CommitOutcome(humidity, min, max, nextPage) ==
  LET v == chamber.inputValue_
  IN IF v > max \/ v < min
     THEN /\ chamber'.screenPage_ = IF v > max THEN "MAXVAL" ELSE "MINVAL"
          /\ chamber'.errorInputHumidity_ = humidity
          /\ Targets(chamber') = Targets(chamber)
     ELSE /\ chamber'.screenPage_ = nextPage
          /\ Targets(chamber') = IF humidity THEN <<v, chamber.fanSpeedTarget_>>
                                 ELSE <<chamber.humidityTarget_, v>>

\* C14: a commit with at least one character entered on the humidity or the
\* fan-speed adjustment page goes to the maximum-error page when the value
\* exceeds the maximum and to the minimum-error page when it is below the
\* minimum, leaving both targets as they were and recording the field in
\* error; any value from the minimum to the maximum, both included, becomes
\* the target of that field and the next page is shown.
C14_CommitValidation ==
  [][ /\ Commit("HUMIDITYADJ") =>
           CommitOutcome(TRUE, chamber.humidityMin_, chamber.humidityMax_,
                         "FANSPEEDADJ")
      /\ Commit("FANSPEEDADJ") =>
           CommitOutcome(FALSE, chamber.fanSpeedMin_, chamber.fanSpeedMax_,
                         "CAL") ]_vars

\* The maximum itself has just been committed as the humidity target.
C14_Witness ==
  /\ profile = "keys"
  /\ pc = "run"
  /\ keypad = [kstate |-> "PRESSED", kchar |-> "s"]
  /\ chamber.screenPage_ = "FANSPEEDADJ"
  /\ chamber.screenPageChanged_
  /\ chamber.humidityTarget_ = chamber.humidityMax_
  /\ chamber.inputCharCount_ = 0

\* A fan speed below the minimum has just been refused after an accepted
\* humidity target.
C14_WitnessRefused ==
  /\ profile = "keys"
  /\ pc = "run"
  /\ chamber.screenPage_ = "MINVAL"
  /\ chamber.screenPageChanged_
  /\ ~chamber.errorInputHumidity_
  /\ chamber.humidityTarget_ = chamber.humidityMin_
  /\ chamber.fanSpeedTarget_ = FANSPEED_USER_MAX

\* ------------------------------------------------------------ C15
TargetsInRange ==
  /\ chamber.humidityTarget_ >= chamber.humidityMin_
  /\ chamber.humidityTarget_ <= chamber.humidityMax_
  /\ chamber.fanSpeedTarget_ >= chamber.fanSpeedMin_
  /\ chamber.fanSpeedTarget_ <= chamber.fanSpeedMax_

\* The listener is called with a press of the settings key on the given page,
\* with characters entered and a value from min to max.
CommitInRange(page, min, max) ==
  /\ ScanStep
  /\ keypad' = [kstate |-> "PRESSED", kchar |-> "s"]
  /\ chamber.screenPage_ = page
  /\ chamber.inputCharCount_ > 0
  /\ chamber.inputValue_ >= min
  /\ chamber.inputValue_ <= max

\* C15: the humidity target starts at the middle of its range and the fan
\* speed target at its maximum; in every state each target lies within its
\* range; and a target takes a new value only in a commit, on its own
\* adjustment page, of a value within its range, which it then holds.
C15_TargetsInRange ==
  /\ chamber.humidityTarget_ * 2 = chamber.humidityMin_ + chamber.humidityMax_
  /\ chamber.fanSpeedTarget_ = chamber.fanSpeedMax_
  /\ []TargetsInRange
  /\ [][ /\ chamber'.humidityTarget_ # chamber.humidityTarget_ =>
             /\ CommitInRange("HUMIDITYADJ", chamber.humidityMin_,
                              chamber.humidityMax_)
             /\ chamber'.humidityTarget_ = chamber.inputValue_
        /\ chamber'.fanSpeedTarget_ # chamber.fanSpeedTarget_ =>
             /\ CommitInRange("FANSPEEDADJ", chamber.fanSpeedMin_,
                              chamber.fanSpeedMax_)
             /\ chamber'.fanSpeedTarget_ = chamber.inputValue_ ]_vars

\* Both targets have been changed, and a value above the maximum has then
\* been refused on the humidity page.
C15_Witness ==
  /\ chamber.screenPage_ = "MAXVAL"
  /\ chamber.errorInputHumidity_
  /\ chamber.inputValue_ > chamber.humidityMax_
  /\ chamber.humidityTarget_ * 2 # chamber.humidityMin_ + chamber.humidityMax_
  /\ chamber.fanSpeedTarget_ # chamber.fanSpeedMax_

\* ------------------------------------------------------------ C16
\* The field the editor is working on takes the humidity format (humidity
\* target, calibration reference) or the fan-speed format.
HumidityField ==
  \/ chamber.screenPage_ \in {"HUMIDITYADJ", "CAL_POINT"}
  \/ chamber.screenPage_ \in {"MINVAL", "MAXVAL"} /\ chamber.errorInputHumidity_

FieldMaxChar ==
  IF HumidityField THEN INPUT_HUMIDITY_MAXCHAR ELSE INPUT_FANSPEED_MAXCHAR

FieldMaxDecimals ==
  IF HumidityField THEN INPUT_HUMIDITY_DECIMALS ELSE INPUT_FANSPEED_DECIMALS

\* C16: in every state the characters entered are the integer digits, the
\* decimal digits and the point if present; they are no more than the
\* maximum of the field, the decimal digits no more than its maximum of
\* decimals, no count is below zero, and the point is present only with at
\* least one integer digit (decimalUsed_ is a flag: it is there once at most).
C16_EditorBounds ==
  /\ chamber.inputCharCount_
       = chamber.inputIntCount_ + chamber.inputDecimalCount_
         + (IF chamber.decimalUsed_ THEN 1 ELSE 0)
  /\ chamber.inputCharCount_ <= FieldMaxChar
  /\ chamber.inputDecimalCount_ <= FieldMaxDecimals
  /\ chamber.inputCharCount_ >= 0
  /\ chamber.inputIntCount_ >= 0
  /\ chamber.inputIntCount_ <= FieldMaxChar
  /\ chamber.inputDecimalCount_ >= 0
  /\ chamber.decimalUsed_ => chamber.inputIntCount_ > 0
  /\ chamber.decimalUsed_ => FieldMaxDecimals > 0

\* The humidity field is full: two integer digits, the point and a decimal,
\* after more presses than it has characters.
C16_Witness ==
  /\ profile = "keys"
  /\ chamber.screenPage_ = "HUMIDITYADJ"
  /\ chamber.inputCharCount_ = INPUT_HUMIDITY_MAXCHAR
  /\ chamber.decimalUsed_
  /\ chamber.inputDecimalCount_ = INPUT_HUMIDITY_DECIMALS
  /\ presses > INPUT_HUMIDITY_MAXCHAR + 2

\* ------------------------------------------------------------ C17
\* A page on which the editor takes keys.
EditPage == chamber.screenPage_ \in {"HUMIDITYADJ", "FANSPEEDADJ", "CAL_POINT"}

Editor(s) ==
  <<s.inputValue_, s.inputCharCount_, s.inputIntCount_, s.inputDecimalCount_,
    s.decimalUsed_>>

\* The editor after the digit d is appended to what it holds.
DigitAppended(d) ==
  LET v == chamber.inputValue_
      n == chamber.inputCharCount_
      i == chamber.inputIntCount_
      f == chamber.inputDecimalCount_
  IN IF n >= FieldMaxChar THEN Editor(chamber)
     ELSE IF chamber.decimalUsed_
          THEN IF f >= FieldMaxDecimals THEN Editor(chamber)
               ELSE <<v + (d * Scale) \div Pow10(f + 1), n + 1, i, f + 1, TRUE>>
          ELSE <<v * 10 + d * Scale, n + 1, i + 1, f, FALSE>>

\* The editor after the last unit entered is removed.
LastRemoved ==
  LET v == chamber.inputValue_
      n == chamber.inputCharCount_
      i == chamber.inputIntCount_
      f == chamber.inputDecimalCount_
  IN IF n = 0 THEN Editor(chamber)
     ELSE IF f > 0 THEN <<TruncDecimals(v, f - 1), n - 1, i, f - 1, TRUE>>
     ELSE IF chamber.decimalUsed_ THEN <<v, n - 1, i, 0, FALSE>>
     ELSE <<((v \div Scale) \div 10) * Scale, n - 1, i - 1, 0, FALSE>>

\* C17: on a page with the editor, a digit key appends its digit to the
\* integer part, or to the decimal part once the point is present, and is
\* ignored when the field is full or has all its decimals; the delete key
\* removes the last unit entered - a decimal digit, else the point, else an
\* integer digit - and does nothing on an empty editor.  (So 5 0 . 5 gives
\* 50.5 in four characters, a further digit is ignored, delete gives 50 with
\* the point, delete again removes the point.)
C17_EditorKeys ==
  [][ /\ \A key \in AllDigitKeys :
           (PressStep(key) /\ EditPage)
             => Editor(chamber') = DigitAppended(DigitVal(key))
      /\ (PressStep("d") /\ EditPage) => Editor(chamber') = LastRemoved ]_vars

\* ------------------------------------------------------------ C18
\* The control loops and what they drive.
ControlState(s) ==
  <<s.humidityControlActive_, s.fanSpeedControlActive_, Actuators(s),
    s.outFanPWMDrain, s.fanTargetReg>>

\* The settings key is pressed on the given page with the editor empty.
SettingsKey(page) ==
  /\ KeyStep("PRESSED", "s")
  /\ chamber.screenPage_ = page
  /\ chamber.inputCharCount_ = 0

\* The press leaves the targets and the control loops alone, writes nothing to
\* the fan controller and shows the given page with the editor empty.
Advances(page) ==
  /\ chamber'.screenPage_ = page
  /\ chamber'.inputCharCount_ = 0
  /\ Targets(chamber') = Targets(chamber)
  /\ ControlState(chamber') = ControlState(chamber)
  /\ chamber'.obsFanWrites = 0

\* C18: a press of the settings key with no character entered leaves both
\* targets and the control loops as they were, writes nothing to the fan
\* controller and goes from the humidity page to the fan-speed page and from
\* there to the calibration page; from Readings it goes to the humidity page
\* and from the calibration page to Readings, each time with the editor
\* empty, and a call of run() on any of these pages leaves page, editor and
\* targets alone: four presses in a row lead from Readings back to Readings.
C18_EmptyCommit ==
  [][ /\ SettingsKey("HUMIDITYADJ") => Advances("FANSPEEDADJ")
      /\ SettingsKey("FANSPEEDADJ") => Advances("CAL")
      /\ SettingsKey("CAL") => Advances("READINGS")
      /\ (KeyStep("PRESSED", "s") /\ chamber.screenPage_ = "READINGS")
           => Advances("HUMIDITYADJ")
      /\ (RunStep /\ chamber.screenPage_ \in {"HUMIDITYADJ", "FANSPEEDADJ", "CAL"})
           => /\ chamber'.screenPage_ = chamber.screenPage_
              /\ Editor(chamber') = Editor(chamber)
              /\ Targets(chamber') = Targets(chamber) ]_vars

\* The humidity page has just been left with nothing entered while the fan
\* loop is running: the humidity target, which no key of this session can
\* enter, is still the one set at start.
C18_Witness ==
  /\ profile = "ui"
  /\ pc = "run"
  /\ keypad = [kstate |-> "PRESSED", kchar |-> "s"]
  /\ chamber.screenPage_ = "FANSPEEDADJ"
  /\ chamber.screenPageChanged_
  /\ chamber.fanSpeedControlActive_
  /\ chamber.humidityTarget_ * 2 = chamber.humidityMin_ + chamber.humidityMax_
  /\ chamber.obsFanWrites = 0

\* ------------------------------------------------------------ C19
ErrorPage(s) == s.screenPage_ \in {"MINVAL", "MAXVAL"}

\* Time since the commit that was refused.
ErrorElapsed == now - chamber.errorInputTimerStart_

FlashSequence == ERROR_INPUT_FLASH_COUNT * PERIOD_ERROR_INPUT_FLASH

\* C19: an error page entered by a refused commit is eventually left; it is
\* entered with the field in error recorded; it is left only in a call of
\* run() made when the whole flash sequence, 6 times 700 ms, has passed since
\* the refused commit, and then for the adjustment page of the field in
\* error with the editor reset; and from the refused commit to the return no
\* target changes.
C19_ErrorPageLeaves ==
  /\ ErrorPage(chamber) ~> ~ErrorPage(chamber)
  /\ [][ /\ (~ErrorPage(chamber) /\ ErrorPage(chamber'))
              => /\ chamber.screenPage_ \in {"HUMIDITYADJ", "FANSPEEDADJ"}
                 /\ chamber'.errorInputHumidity_
                      = (chamber.screenPage_ = "HUMIDITYADJ")
         /\ (ErrorPage(chamber) /\ ~ErrorPage(chamber'))
              => /\ RunStep
                 /\ ErrorElapsed' >= FlashSequence
                 /\ chamber'.screenPage_ = IF chamber.errorInputHumidity_
                                           THEN "HUMIDITYADJ" ELSE "FANSPEEDADJ"
                 /\ Editor(chamber') = <<0, 0, 0, 0, FALSE>>
         /\ (ErrorPage(chamber) \/ ErrorPage(chamber'))
              => Targets(chamber') = Targets(chamber) ]_vars

\* run() has just brought the fan-speed page back after the flash sequence of
\* a refused fan speed.
C19_Witness ==
  /\ profile = "flash"
  /\ pc = "getKey"
  /\ chamber.screenPage_ = "FANSPEEDADJ"
  /\ chamber.screenPageChanged_
  /\ ~chamber.errorInputHumidity_
  /\ chamber.errorInputTimerFlashCounter_ = ERROR_INPUT_FLASH_COUNT
  /\ ErrorElapsed >= FlashSequence
  /\ Editor(chamber) = <<0, 0, 0, 0, FALSE>>

\* ------------------------------------------------------------ C20
\* What the sensor holds as calibration.
Calibration(s) == <<s.calPoint1, s.calPoint2>>

NoCalibration == <<(<<>>), (<<>>)>>

\* Time since the reset page was drawn.
CalResetElapsed == now - chamber.calResetSplashTimerStart_

\* C20: on the calibration-reset page a press of the confirmation key clears
\* the calibration and shows the calibration page, and no other event of the
\* keypad changes calibration or page; a call of run() never changes the
\* calibration, draws the page and starts the timer if the page is new, and
\* otherwise shows the calibration page exactly when 2000 ms have passed
\* since the page was drawn; and a stored calibration is cleared by nothing
\* but a press of the confirmation key on that page.
C20_CalibrationReset ==
  [][ /\ (ScanStep /\ keypad' # keypad /\ chamber.screenPage_ = "CAL_RESET")
           => IF keypad' = [kstate |-> "PRESSED", kchar |-> "5"]
              THEN /\ Calibration(chamber') = NoCalibration
                   /\ chamber'.screenPage_ = "CAL"
              ELSE /\ Calibration(chamber') = Calibration(chamber)
                   /\ chamber'.screenPage_ = "CAL_RESET"
      /\ (RunStep /\ chamber.screenPage_ = "CAL_RESET")
           => /\ Calibration(chamber') = Calibration(chamber)
              /\ chamber.screenPageChanged_
                   => (CalResetElapsed' = 0 /\ chamber'.screenPage_ = "CAL_RESET")
              /\ ~chamber.screenPageChanged_
                   => chamber'.screenPage_
                        = IF CalResetElapsed' >= PERIOD_SCREEN_CALRESET
                          THEN "CAL" ELSE "CAL_RESET"
      /\ (Calibration(chamber) # NoCalibration
             /\ Calibration(chamber') = NoCalibration)
           => /\ ScanStep
              /\ chamber.screenPage_ = "CAL_RESET"
              /\ keypad' = [kstate |-> "PRESSED", kchar |-> "5"] ]_vars

\* The confirmation key has just been pressed on the reset page, drawn less
\* than 2000 ms ago, at the end of a session long enough to have stored a
\* calibration point first.
C20_Witness ==
  /\ profile = "cal"
  /\ pc = "run"
  /\ keypad = [kstate |-> "PRESSED", kchar |-> "5"]
  /\ chamber.screenPage_ = "CAL"
  /\ chamber.screenPageChanged_
  /\ Calibration(chamber) = NoCalibration
  /\ CalResetElapsed < PERIOD_SCREEN_CALRESET
  /\ presses >= 8

\* ------------------------------------------------------------ C21
\* C21: on the calibration page key 1 selects point 1 and key 2 point 2 and
\* shows the calibration-point page, on which the selection stays as it is;
\* there a press of the settings key with characters entered stores the raw
\* reading the sensor holds together with the value entered as the selected
\* point and leaves the other point alone, with no character entered it
\* leaves both points alone; either way the calibration page is shown and
\* the editor is reset.
C21_CalibrationPoint ==
  [][ /\ (PressStep("1") /\ chamber.screenPage_ = "CAL")
           => (chamber'.screenPage_ = "CAL_POINT" /\ chamber'.calibratingPoint1)
      /\ (PressStep("2") /\ chamber.screenPage_ = "CAL")
           => (chamber'.screenPage_ = "CAL_POINT" /\ ~chamber'.calibratingPoint1)
      /\ (chamber.screenPage_ = "CAL_POINT" /\ chamber'.screenPage_ = "CAL_POINT")
           => chamber'.calibratingPoint1 = chamber.calibratingPoint1
      /\ (PressStep("s") /\ chamber.screenPage_ = "CAL_POINT")
           => LET point == <<chamber.sensorRHRaw, chamber.inputValue_>>
              IN /\ chamber'.screenPage_ = "CAL"
                 /\ Editor(chamber') = <<0, 0, 0, 0, FALSE>>
                 /\ Calibration(chamber')
                      = IF chamber.inputCharCount_ = 0 THEN Calibration(chamber)
                        ELSE IF chamber.calibratingPoint1
                             THEN <<point, chamber.calPoint2>>
                             ELSE <<chamber.calPoint1, point>> ]_vars

\* Point 2 has just been stored after point 1, each with the reading the
\* sensor held at the time, and the two readings differ.
C21_Witness ==
  /\ profile = "calpoint"
  /\ pc = "run"
  /\ keypad = [kstate |-> "PRESSED", kchar |-> "s"]
  /\ chamber.screenPage_ = "CAL"
  /\ chamber.screenPageChanged_
  /\ ~chamber.calibratingPoint1
  /\ chamber.calPoint1 # <<>>
  /\ chamber.calPoint2 # <<>>
  /\ chamber.calPoint2[1] = chamber.sensorRHRaw
  /\ chamber.calPoint1[1] # chamber.calPoint2[1]

\* ------------------------------------------------------------ C22
\* A step that is a call of processIncoming().
ProcessStep == serial'.calls = serial.calls + 1

\* The pending bytes hold a whole line.
HasLine == FirstIndex(serial.rx, SERIAL_CMD_EOL) # 0

\* That line, without its terminator.
Line == SubSeq(serial.rx, 1, FirstIndex(serial.rx, SERIAL_CMD_EOL) - 1)

KnownCommands == {SERIAL_CMD_DAQ_START, SERIAL_CMD_DAQ_STOP}

\* C22: a call of processIncoming() on a pending line START, selector, END
\* succeeds with that selector as the only fragment when the selector is d
\* or s and fails for any other selector; it fails when anything stands
\* between the first END and the end of the line, when the line has no END,
\* and when the line does not begin with START.
C22_FrameAccepted ==
  [][ (ProcessStep /\ HasLine) =>
        LET e == FirstIndex(Line, SERIAL_CMD_END)
        IN /\ (Len(Line) = 3 /\ Line[1] = SERIAL_CMD_START
                 /\ Line[3] = SERIAL_CMD_END)
                => IF Line[2] \in KnownCommands
                   THEN serial'.ret /\ serial'.fragmentBuffer0 = <<Line[2]>>
                   ELSE ~serial'.ret
           /\ (e # 0 /\ Len(Line) > e) => ~serial'.ret
           /\ e = 0 => ~serial'.ret
           /\ (Line = <<>> \/ Line[1] # SERIAL_CMD_START) => ~serial'.ret ]_vars

\* ------------------------------------------------------------ C23
\* C23: a call of processIncoming() on a pending line succeeds only if what
\* stands between START and END is one byte, d or s, and nothing else.
C23_OnlyExactCommands ==
  [][ (ProcessStep /\ HasLine /\ serial'.ret) =>
        LET e == FirstIndex(Line, SERIAL_CMD_END)
        IN /\ e = 3
           /\ Line[1] = SERIAL_CMD_START
           /\ Line[2] \in KnownCommands ]_vars

\* ------------------------------------------------------------ C24
\* The bytes sent are n bytes other than START, then a frame START,
\* selector, END and the line terminator.
FrameAfter(n) ==
  /\ Len(serial.sent) >= n + 4
  /\ \A i \in 1..n : serial.sent[i] # SERIAL_CMD_START
  /\ serial.sent[n + 1] = SERIAL_CMD_START
  /\ serial.sent[n + 2] \in KnownCommands
  /\ serial.sent[n + 3] = SERIAL_CMD_END
  /\ serial.sent[n + 4] = SERIAL_CMD_EOL

\* C24: a call of processIncoming() made when the first pending byte is not
\* START fails, takes exactly that byte off the port and leaves the buffers
\* alone; and when n bytes other than START are sent ahead of a well-formed
\* frame, the first n calls fail and call n + 1 succeeds with the command of
\* the frame.
C24_Resynchronisation ==
  /\ [][ (ProcessStep /\ Head(serial.rx) # SERIAL_CMD_START)
           => /\ ~serial'.ret
              /\ serial'.rx = Tail(serial.rx)
              /\ serial'.serialBuffer = serial.serialBuffer
              /\ serial'.fragmentBuffer0 = serial.fragmentBuffer0 ]_vars
  /\ [](\A n \in 0..MaxRx :
          FrameAfter(n) =>
            /\ (serial.calls \in 1..n) => ~serial.ret
            /\ serial.calls = n + 1
                 => (serial.ret /\ serial.fragmentBuffer0 = <<serial.sent[n + 2]>>))

\* A byte of garbage went ahead of a frame, and the second call has accepted
\* the frame.
C24_Witness ==
  /\ FrameAfter(1)
  /\ serial.calls = 2
  /\ serial.ret
  /\ serial.rx = <<>>

\* ---- C25
\* What was written to the port, and its pieces between the separators.
RECURSIVE SplitOn(_, _)
SplitOn(seq, sep) ==
  LET k == FirstIndex(seq, sep)
  IN IF k = 0 THEN <<seq>>
     ELSE <<SubSeq(seq, 1, k - 1)>> \o SplitOn(SubSeq(seq, k + 1, Len(seq)), sep)

IsDigits(f) ==
  /\ f # <<>>
  /\ \A i \in 1..Len(f) : \E d \in 1..10 : f[i] = DigitChars[d]

RECURSIVE NumberOf(_)
NumberOf(f) ==
  IF f = <<>> THEN 0
  ELSE 10 * NumberOf(SubSeq(f, 1, Len(f) - 1))
         + (CHOOSE d \in 0..9 : DigitChars[d + 1] = f[Len(f)])

Unsigned(f) == IF f # <<>> /\ f[1] = "-" THEN Tail(f) ELSE f

IntegerDigits(f, decimals) ==
  IF decimals = 0 THEN Unsigned(f)
  ELSE SubSeq(Unsigned(f), 1, FirstIndex(Unsigned(f), ".") - 1)

FractionDigits(f, decimals) ==
  SubSeq(Unsigned(f), FirstIndex(Unsigned(f), ".") + 1, Len(Unsigned(f)))

\* f is a decimal numeral with exactly `decimals' digits after the point (no
\* point when there are none) and no needless leading zero.
IsDecimal(f, decimals) ==
  /\ IsDigits(IntegerDigits(f, decimals))
  /\ Len(IntegerDigits(f, decimals)) > 1 => IntegerDigits(f, decimals)[1] # "0"
  /\ decimals > 0 =>
       /\ FirstIndex(Unsigned(f), ".") > 1
       /\ Len(FractionDigits(f, decimals)) = decimals
       /\ IsDigits(FractionDigits(f, decimals))

\* The value of the numeral f, in hundredths.
DecimalValue(f, decimals) ==
  LET magnitude ==
        NumberOf(IntegerDigits(f, decimals)) * ValUnit
          + (IF decimals = 0 THEN 0
             ELSE NumberOf(FractionDigits(f, decimals))
                    * (ValUnit \div Pow10(decimals)))
  IN IF f[1] = "-" THEN -magnitude ELSE magnitude

\* f shows number to the given decimals: a numeral at most half a unit of
\* its last place from number.
Shows(f, number, decimals) ==
  /\ IsDecimal(f, decimals)
  /\ LET diff == DecimalValue(f, decimals) - number
     IN 2 * (IF diff < 0 THEN -diff ELSE diff) <= ValUnit \div Pow10(decimals)

FieldIs(f, shown, number, decimals, marker) ==
  IF shown THEN Shows(f, number, decimals) ELSE f = <<marker>>

DataFields ==
  SplitOn(SubSeq(serial.tx, 4, Len(serial.tx) - 2), SERIAL_SEND_SEPARATOR)

\* C25: after sendData the port holds exactly START, the selector d, five
\* fields each led by SEPARATOR, END and the line terminator; the fields are
\* the humidity to one decimal (the marker e iff the humidity is not ok), the
\* temperature to one decimal or e, the fan speed to no decimals (e iff the
\* fan speed is not ok), the humidity target (the marker i iff humidity
\* control is inactive) and the fan target (i iff fan control is inactive).
C25_DataFrame ==
  (pc = "send" /\ serial.calls = 1) =>
    /\ Len(serial.tx) >= 5
    /\ SubSeq(serial.tx, 1, 3)
         = <<SERIAL_SEND_START, SERIAL_SEND_DATA, SERIAL_SEND_SEPARATOR>>
    /\ SubSeq(serial.tx, Len(serial.tx) - 1, Len(serial.tx))
         = <<SERIAL_SEND_END, SERIAL_SEND_EOL>>
    /\ Len(DataFields) = 5
    /\ FieldIs(DataFields[1], serial.args.humidityOK, serial.args.humidity,
               DECIMALS_HUMIDITY, SERIAL_SEND_DATA_ERROR)
    /\ FieldIs(DataFields[2], serial.args.humidityOK, serial.args.temperature,
               DECIMALS_TEMPERATURE, SERIAL_SEND_DATA_ERROR)
    /\ FieldIs(DataFields[3], serial.args.fanSpeedOK, serial.args.fanSpeed,
               DECIMALS_FANSPEED, SERIAL_SEND_DATA_ERROR)
    /\ FieldIs(DataFields[4], serial.args.humidityControlActive,
               serial.args.humidityTarget, DECIMALS_HUMIDITY,
               SERIAL_SEND_DATA_CONTROLINACTIVE)
    /\ FieldIs(DataFields[5], serial.args.fanSpeedControlActive,
               serial.args.fanSpeedTarget, DECIMALS_FANSPEED,
               SERIAL_SEND_DATA_CONTROLINACTIVE)

\* Humidity 45.6 ok, fan not ok, humidity control active with target 50.0,
\* fan control inactive.
C25_Witness ==
  /\ pc = "send"
  /\ serial.calls = 1
  /\ serial.args.humidity = 4560
  /\ serial.args.temperature = 2500
  /\ serial.tx = <<"^", "d", "|", "4", "5", ".", "6", "|", "2", "5", ".", "0",
                   "|", "e", "|", "5", "0", ".", "0", "|", "i", "@", "LF">>

\* ---- C26
\* A call of run() that fetched the measurements and lost at least one.
AcquisitionFailed ==
  /\ RunStep
  /\ chamber'.obsDaq = "fetch"
  /\ ~chamber'.humidityOK_ \/ ~chamber'.fanSpeedOK_

\* What the user set and sees: page, targets, editor, the two control flags,
\* and whether the page is still to be drawn.
UserState(s) ==
  <<s.screenPage_, s.screenPageChanged_, Targets(s), Editor(s),
    s.humidityControlActive_, s.fanSpeedControlActive_>>

\* C26: a call of run() in which the humidity or the fan speed could not be
\* read leaves the page, both targets, the input editor and both
\* control-active flags exactly as the screen update of that call alone
\* leaves them (the acquisition and the humidity policy change none of
\* them), the call ends, and with humidity control active and the humidity
\* lost the error handling is on with pump and valves off.
C26_FailureNotEscalated ==
  [][AcquisitionFailed =>
       /\ \E d \in DeltasOf(profile), fanWF \in FanBus :
            UserState(chamber')
              = UserState(updateScreen(clearObs(chamber), now + d,
                                       keypad.kstate, fanWF))
       /\ (chamber.humidityControlActive_ /\ ~chamber'.humidityOK_) =>
            /\ chamber'.humidityErrorHandlingActive_
            /\ ActuatorsOff(chamber')
       /\ pc' = "getKey"]_vars

C26_Witness ==
  /\ pc = "getKey"
  /\ chamber.obsDaq = "fetch"
  /\ ~chamber.humidityOK_
  /\ ~chamber.fanSpeedOK_
  /\ chamber.humidityControlActive_
  /\ chamber.humidityErrorHandlingActive_
  /\ chamber.screenPage_ = "HUMIDITYADJ"
  /\ chamber.inputCharCount_ > 0

\* ---- C27
\* C27: in every reachable state the humidity error handling is active only
\* if humidity control is active and the humidity reading is not ok.
C27_ErrorHandlingScope ==
  chamber.humidityErrorHandlingActive_ =>
    (chamber.humidityControlActive_ /\ ~chamber.humidityOK_)

\* ---- C29
\* C29: while the Readings page or the calibration point page stays up, one
\* humidity reading is written to it at most once (by the redraw of the page
\* or, afterwards, in a call that finds the reading flagged as new for the
\* display), and once a reading has been written the flag is down.
C29_ReadingDrawnOnce ==
  /\ chamber.drawsRH <= 1
  /\ (pc = "getKey" /\ chamber.drawsRH >= 1) =>
       ~chamber.newHumidityReadingPrint_

\* ---- C28
\* The controller made a step in the call of run(): a PID compute or the
\* reset after an error.
ControllerStepped == chamber'.obsCtl \in {"compute", "recover"}

\* The flag "new for control" as the control part of the call of run() found
\* it: as the acquisition left it if there was one, else as it was.
FlaggedForControl ==
  IF chamber'.obsDaq = "fetch"
  THEN chamber'.obsAcqFlags[3]
  ELSE chamber.newHumidityReadingControl_

\* C28: in a call of run() the controller makes a step (compute or reset)
\* only if the reading is flagged as new for control, and the step takes the
\* flag down, so that a reading is acted on at most once; with control active
\* a reading acquired ok is acted on in the same call; the screen update
\* leaves the flag as the control part left it; and a key handler never
\* touches the flag.
C28_ActsOncePerReading ==
  /\ [][RunStep =>
          /\ ControllerStepped => FlaggedForControl
          /\ ControllerStepped => ~chamber'.newHumidityReadingControl_
          /\ (chamber.humidityControlActive_ /\ chamber'.obsDaq = "fetch"
                /\ chamber'.obsAcqFlags[1]) => ControllerStepped
          /\ chamber'.newHumidityReadingControl_
               = (FlaggedForControl /\ ~ControllerStepped)]_vars
  /\ [][pc = "getKey" =>
          chamber'.newHumidityReadingControl_
            = chamber.newHumidityReadingControl_]_vars

C28_Witness ==
  /\ pc = "getKey"
  /\ chamber.obsDaq = "fetch"
  /\ chamber.obsCtl = "compute"
  /\ chamber.humidityControlActive_
  /\ ~chamber.newHumidityReadingControl_

\* ---- C30
\* The time since the last acquisition at the call of run() being made, and
\* what that call did.
SinceFetch == chamber.msSinceFetch + Sub32(now', now)

Fetched == chamber'.obsDaq = "fetch"

Triggered == chamber'.obsDaq = "trigger"

\* C30: with the clock a 32-bit counter that wraps, a call of run() makes an
\* acquisition exactly when at least PERIOD_DAQ ms have passed since the last
\* one and the trigger has been issued, and issues the trigger exactly when
\* at least PERIOD_DAQ - PERIOD_DAQ_HUMIDITY_TRIGGER ms have passed and none
\* has been issued yet, also when the clock wrapped in between; so two
\* acquisitions are at least PERIOD_DAQ ms apart with exactly one trigger
\* between them.
C30_WraparoundSafe ==
  [][(pc = "wrap" /\ now' # now) =>
       /\ Fetched <=> (SinceFetch >= PERIOD_DAQ /\ chamber.humidityTriggered_)
       /\ Triggered <=>
            (SinceFetch >= PERIOD_DAQ - PERIOD_DAQ_HUMIDITY_TRIGGER
               /\ ~chamber.humidityTriggered_)
       /\ Fetched => (SinceFetch >= PERIOD_DAQ
                        /\ chamber.triggersSinceFetch = 1)
       /\ chamber'.triggersSinceFetch <= 1]_vars

\* An acquisition made less than PERIOD_DAQ ms after the counter returned to
\* zero: the acquisition before it was made before the wrap.
C30_Witness ==
  /\ pc = "wrap"
  /\ chamber.obsDaq = "fetch"
  /\ chamber.DAQTimerStart_ = now
  /\ now >= 0
  /\ now < PERIOD_DAQ

\* ---- C31
\* C31: the count of entered characters is the count of integer digits plus
\* the count of decimal digits, the decimal point adding nothing.
C31_CountIsDigits ==
  chamber.inputCharCount_
    = chamber.inputIntCount_ + chamber.inputDecimalCount_

\* C31 as the code has it: the count of entered characters is the count of
\* integer digits plus the count of decimal digits, plus one when the decimal
\* point has been entered.
C31_CountIsCharacters ==
  chamber.inputCharCount_
    = chamber.inputIntCount_ + chamber.inputDecimalCount_
        + (IF chamber.decimalUsed_ THEN 1 ELSE 0)

\* Two digits, the point and a decimal digit have been entered: 50.5.
C31_Witness ==
  /\ chamber.screenPage_ = "HUMIDITYADJ"
  /\ chamber.decimalUsed_
  /\ chamber.inputIntCount_ = 2
  /\ chamber.inputDecimalCount_ = 1
  /\ chamber.inputCharCount_ = 4
  /\ chamber.inputValue_ = 505
\* ---- C32
ScreenPages ==
  {"READINGS", "HUMIDITYADJ", "FANSPEEDADJ", "CAL", "CAL_POINT", "CAL_RESET",
   "HOLD", "MINVAL", "MAXVAL"}

PageChanges ==
  {<<"READINGS", "HUMIDITYADJ">>, <<"READINGS", "HOLD">>,
   <<"HUMIDITYADJ", "FANSPEEDADJ">>, <<"HUMIDITYADJ", "MINVAL">>,
   <<"HUMIDITYADJ", "MAXVAL">>,
   <<"FANSPEEDADJ", "CAL">>, <<"FANSPEEDADJ", "MINVAL">>,
   <<"FANSPEEDADJ", "MAXVAL">>,
   <<"CAL", "CAL_POINT">>, <<"CAL", "CAL_RESET">>, <<"CAL", "READINGS">>,
   <<"CAL_POINT", "CAL">>, <<"CAL_RESET", "CAL">>,
   <<"HOLD", "READINGS">>,
   <<"MINVAL", "HUMIDITYADJ">>, <<"MINVAL", "FANSPEEDADJ">>,
   <<"MAXVAL", "HUMIDITYADJ">>, <<"MAXVAL", "FANSPEEDADJ">>}

\* C32: one page is current at any time, the first is the readings page, and
\* every change of the page made by a key event or a call of run() is one of
\* the changes listed in PageChanges.
C32_PageChanges ==
  /\ chamber.screenPage_ = "READINGS"
  /\ [](chamber.screenPage_ \in ScreenPages)
  /\ [][chamber'.screenPage_ # chamber.screenPage_
          => <<chamber.screenPage_, chamber'.screenPage_>> \in PageChanges]_vars

\* The reset page has timed out and the calibration menu is to be redrawn.
C32_Witness ==
  /\ chamber.screenPage_ = "CAL" /\ chamber.screenPageChanged_
  /\ pc = "getKey" /\ keypad.kstate = "IDLE" /\ keypad.kchar = "3"
\* ---- C33
\* C33: for every hold duration the countdown starts at the whole seconds of
\* the duration; a call of run() on the Hold page leaves it or lowers it by
\* one, never below zero; and with the key held the call stops the loop and
\* returns to Readings exactly when the time held has reached the duration.
C33_Countdown ==
  [][ /\ (KeyStep("HOLD", "h") /\ chamber'.screenPage_ = "HOLD") =>
            chamber'.keyHoldSecondsRemaining_ = chamber.keyHoldDuration_ \div 1000
      /\ (RunStep /\ HoldDrawn) =>
            /\ chamber'.keyHoldSecondsRemaining_
                 \in {chamber.keyHoldSecondsRemaining_,
                      chamber.keyHoldSecondsRemaining_ - 1}
            /\ chamber'.keyHoldSecondsRemaining_ >= 0
      /\ (RunStep /\ HoldDrawn /\ keypad.kstate = "HOLD") =>
            ((HoldElapsed' >= chamber.keyHoldDuration_)
               <=> (/\ chamber'.screenPage_ = "READINGS"
                    /\ ~chamber'.humidityControlActive_)) ]_vars
\* ---- C34
\* The flags of the loop a toggle key belongs to.
ActiveOf(s, key) ==
  IF key = "h" THEN s.humidityControlActive_ ELSE s.fanSpeedControlActive_

RecentlyStoppedOf(s, key) ==
  IF key = "h" THEN s.humidityControlRecentlyStopped_
  ELSE s.fanSpeedControlRecentlyStopped_

OtherKey(key) == IF key = "h" THEN "f" ELSE "h"

\* The loop of the given toggle key has been stopped by a hold and the key is
\* still held.
StoppedWhileHeld(key) ==
  /\ keypad = [kstate |-> "HOLD", kchar |-> key]
  /\ RecentlyStoppedOf(chamber, key)
  /\ ~ActiveOf(chamber, key)

OutputsOf35(s, key) ==
  IF key = "h" THEN <<Actuators(s), s.outLEDRH>>
  ELSE <<s.outFanPWMDrain, s.outLEDFan, s.fanTargetReg>>

\* C35: a loop becomes active only in the release event of its toggle key on
\* Readings, and inactive only in the call of run() that completes the Hold
\* countdown begun with its key; a key event on any other page changes no
\* active flag and no output; an event of one toggle key leaves the other
\* loop's flag and outputs alone, and so does the completion of a hold for
\* what the other loop does not drive itself in that call.
C35_FlagsChangeOnlyFromReadingsAndHold ==
  [][\A key \in {"h", "f"} :
       /\ (~ActiveOf(chamber, key) /\ ActiveOf(chamber', key)) =>
             /\ KeyStep("RELEASED", key)
             /\ chamber.screenPage_ = "READINGS"
       /\ (ActiveOf(chamber, key) /\ ~ActiveOf(chamber', key)) =>
             /\ RunStep /\ HoldDrawn
             /\ chamber'.keyHoldSecondsRemaining_ = 0
             /\ IF key = "h" THEN chamber.holdHumidityButton_
                ELSE chamber.holdFanSpeedButton_ /\ ~chamber.holdHumidityButton_
       /\ (ScanStep /\ chamber.screenPage_ # "READINGS") =>
             /\ ActiveOf(chamber', key) = ActiveOf(chamber, key)
             /\ Actuators(chamber') = Actuators(chamber)
             /\ chamber'.outFanPWMDrain = chamber.outFanPWMDrain
       /\ (ScanStep /\ keypad' # keypad /\ keypad'.kchar = key) =>
             /\ ActiveOf(chamber', OtherKey(key)) = ActiveOf(chamber, OtherKey(key))
             /\ OutputsOf35(chamber', OtherKey(key)) = OutputsOf35(chamber, OtherKey(key))
       /\ (RunStep /\ HoldDrawn /\ chamber.holdHumidityButton_) =>
             /\ chamber'.fanSpeedControlActive_ = chamber.fanSpeedControlActive_
             /\ OutputsOf35(chamber', "f") = OutputsOf35(chamber, "f")
       /\ (RunStep /\ HoldDrawn /\ ~chamber.holdHumidityButton_) =>
             /\ chamber'.humidityControlActive_ = chamber.humidityControlActive_
             /\ chamber'.outLEDRH = chamber.outLEDRH
             /\ ~chamber.humidityControlActive_
                  => Actuators(chamber') = Actuators(chamber) ]_vars

\* The humidity key is held on a settings page while its loop runs.
C35_Witness ==
  /\ pc = "run"
  /\ keypad = [kstate |-> "HOLD", kchar |-> "h"]
  /\ chamber.screenPage_ = "HUMIDITYADJ"
  /\ chamber.humidityControlActive_
\* ---- C36
\* C36: after every call of run() and every key event the two valves are not
\* both open, and the pump is either at 0 with both valves closed or at a
\* duty from the minimum duty to 255 with exactly one valve open.
C36_ValvesAndPump ==
  /\ ~(chamber.outValveWet /\ chamber.outValveDry)
  /\ \/ chamber.outPump = 0 /\ ~chamber.outValveWet /\ ~chamber.outValveDry
     \/ /\ chamber.outPump \in chamber.pumpDutyCycleMin_..255
        /\ chamber.outValveWet # chamber.outValveDry

\* The loop is drying at a duty between the limits.
C36_Witness ==
  /\ pc = "getKey"
  /\ chamber.humidityControlActive_
  /\ chamber.outValveDry /\ ~chamber.outValveWet
  /\ chamber.outPump = 80
  /\ chamber.humidityControlOutput_ < 0
\* ---- C37
\* The fan rail is on when the pin that drains it is low.
FanRailOn(s) == ~s.outFanPWMDrain

\* C37: in every state the fan rail is on exactly when the fan indicator is
\* on and exactly when fan control is active, and the humidity indicator is
\* on exactly when humidity control is active.
C37_Indicators ==
  /\ FanRailOn(chamber) = chamber.outLEDFan
  /\ chamber.outLEDFan = chamber.fanSpeedControlActive_
  /\ chamber.outLEDRH = chamber.humidityControlActive_

\* Fan control runs after a stop of it failed on the bus; humidity control
\* has been stopped.
C37_Witness ==
  /\ chamber.fanSpeedControlActive_ /\ chamber.outLEDFan /\ FanRailOn(chamber)
  /\ chamber.fanSpeedControlRecentlyStopped_
  /\ ~chamber.humidityControlActive_ /\ ~chamber.outLEDRH
  /\ chamber.humidityControlRecentlyStopped_
\* ---- C38
EditingPages == {"HUMIDITYADJ", "FANSPEEDADJ", "CAL_POINT"}

EmptyEditor == <<0, 0, 0, 0, FALSE>>

\* C38: a step that makes the humidity page, the fan page or the
\* calibration-point page the current page leaves the editor empty: no value,
\* no characters, no decimal point.
C38_EditorEmptyOnEntry ==
  [][ (chamber'.screenPage_ \in EditingPages
         /\ chamber'.screenPage_ # chamber.screenPage_)
        => Editor(chamber') = EmptyEditor ]_vars

\* The calibration-point page has been entered after a humidity target of 5
\* was typed and saved on the humidity page.
C38_Witness ==
  /\ pc = "run"
  /\ chamber.screenPage_ = "CAL_POINT" /\ chamber.screenPageChanged_
  /\ Editor(chamber) = EmptyEditor
  /\ chamber.humidityTarget_ = 5 * Scale
\* ---- C39
\* C39: whenever fan control is active, the target last written successfully
\* to the fan controller is the stored fan-speed target.
C39_WrittenEqualsStored ==
  chamber.fanSpeedControlActive_ => chamber.fanTargetReg = chamber.fanSpeedTarget_
\* ---- C40
\* C40: processIncoming copies no fragment of more than fragmentBufferLength - 1
\* characters into a fragment buffer and writes no fragment at an index
\* from fragmentMaxCount on.
C40_FragmentFits ==
  /\ serial.fragmentBytes - 1 <= fragmentBufferLength - 1
  /\ serial.fragmentIndex < fragmentMaxCount

====
